---- MODULE Spec2Model ----
(***************************************************************************)
(* DejaVu: the duplicate-detection engine and the browsing layer.          *)
(*                                                                         *)
(*   HashGrouper::group_by_exact_hash   (src/src/dedup/hash_group.rs)      *)
(*   HashGrouper::find_similar_images   (src/src/dedup/hash_group.rs)      *)
(*   DuplicateGroup                     (src/src/models/duplicate_group.rs)*)
(*   ExactHasher / PerceptualHasher     (src/src/hashing/)                 *)
(*   App, handle_key_event              (src/src/tui/)                     *)
(*   run_tui, run_app                   (src/src/main.rs)                  *)
(*                                                                         *)
(* Rust indices are 0-based and are kept 0-based in the model's data       *)
(* (group_id, recommended_original, the loop index i); a Vec is a TLA+     *)
(* sequence, so element k of a Vec v is v[k + 1].                          *)
(***************************************************************************)
EXTENDS Integers, Sequences, FiniteSets, TLC

(***************************************************************************)
(* Bounds of the model.                                                    *)
(***************************************************************************)
\* longest input Vec<FileInfo> handed to a stage
MaxFiles == 4
\* number of threads of the rayon pool running par_iter().for_each
NumWorkers == 2
\* largest similarity_threshold tried (a Hamming distance)
MaxThreshold == 1
\* longest member list handed directly to DuplicateGroup::new
MaxMembers == 3
\* modification times 1..MaxTime of the members handed to DuplicateGroup::new
MaxTime == 3
\* longest file content, in bytes, read by ExactHasher::compute_hash
MaxBytes == 3
\* size of the read buffer of ExactHasher::compute_hash (65536 in the
\* code, scaled down with the files)
BufferSize == 2
\* largest luminance of a sample of the grids handed to
\* PerceptualHasher::compute_hash
MaxSample == 2

\* the most groups of a list the flat index is run on
MaxGroups == 3

\* the most files marked at a time in a run of the flat index
MaxMarks == 2

(***************************************************************************)
(* Option<T>.                                                              *)
(***************************************************************************)
None == <<>>
Some(x) == <<x>>

(***************************************************************************)
(* Paths.  A PathBuf is modelled by the sequence of its components as      *)
(* Path::components() yields them: RootDir ("/") first, then the normal    *)
(* components.                                                             *)
(***************************************************************************)
P_a_f1 == <<"/", "a", "f1.jpg">>
P_a_f2 == <<"/", "a", "f2.jpg">>
P_f3 == <<"/", "f3.jpg">>
P_a_v4 == <<"/", "a", "v4.mp4">>
P_abc == <<"/", "abc.jpeg">>
P_a_b_f5 == <<"/", "a", "b", "f5.png">>

RECURSIVE SumLen(_)
\* total length of the strings of a sequence of components
SumLen(cs) == IF cs = <<>> THEN 0 ELSE Len(Head(cs)) + SumLen(Tail(cs))

\* path.as_os_str().len(): the length of "/c1/c2/.../cn", that is the root
\* separator, the components and one separator between two components
OsStrLen(path) ==
    IF Len(path) <= 1 THEN SumLen(path)
    ELSE 1 + SumLen(Tail(path)) + (Len(path) - 2)

\* path.components().count()
ComponentsCount(path) == Len(path)

(***************************************************************************)
(* File contents and the exact fingerprint.                                *)
(***************************************************************************)
\* byte sequences found on disk
ContentA == <<1, 2>>
ContentB == <<3>>

\* what the file system holds under one path: the bytes, and whether
\* File::open / read succeed
DiskStates ==
    { [readable |-> TRUE, bytes |-> ContentA],
      [readable |-> TRUE, bytes |-> ContentB],
      [readable |-> FALSE, bytes |-> ContentA] }

\* Sha256 over the whole byte stream.  The digest is collision free on the
\* contents of the model: it is represented by the tagged byte stream.
Sha256(bytes) == <<"sha256", bytes>>

\* Result<Vec<u8>>
Ok(v) == [ok |-> TRUE, val |-> v]
Err(e) == [ok |-> FALSE, val |-> e]

\* DejaVuError::Io(#[from] std::io::Error): what `?` makes of the io::Error
\* of File::open or read, which holds the kind the system reported
DejaVuError_Io(kind) == [variant |-> "Io", source |-> kind]

\* ExactHasher::compute_hash(path) against the disk d
ExactHasher_compute_hash(d, path) ==
    IF d[path].readable
    THEN Ok(Sha256(d[path].bytes))
    ELSE Err(DejaVuError_Io("PermissionDenied"))

(***************************************************************************)
(* Perceptual fingerprint.                                                 *)
(***************************************************************************)
\* a fingerprinter whose value depends on the file: the length of its path
PerceptualHasher_compute_hash_ByPath(path) == Ok(OsStrLen(path))

\* PerceptualHasher::compute_hash: the shipped body returns Ok(0)
PerceptualHasher_compute_hash(path) == Ok(0)

\* bits of a u64 fingerprint kept by the model (integers of the model
\* checker are 32 bits wide)
HashBits == 4

RECURSIVE CountOnes(_, _)
\* count_ones of the low n bits of x
CountOnes(x, n) == IF n = 0 THEN 0 ELSE (x % 2) + CountOnes(x \div 2, n - 1)

RECURSIVE Xor_BitOr(_, _, _)
\* hash1 | hash2: bitwise or of the low n bits of x and y
Xor_BitOr(x, y, n) ==
    IF n = 0 THEN 0
    ELSE (IF x % 2 = 1 \/ y % 2 = 1 THEN 1 ELSE 0)
            + 2 * Xor_BitOr(x \div 2, y \div 2, n - 1)

RECURSIVE Xor(_, _, _)
\* bitwise exclusive or of the low n bits of x and y
Xor(x, y, n) ==
    IF n = 0 THEN 0
    ELSE ((x + y) % 2) + 2 * Xor(x \div 2, y \div 2, n - 1)

\* PerceptualHasher::hamming_distance
hamming_distance(hash1, hash2) == CountOnes(Xor(hash1, hash2, HashBits), HashBits)

\* hamming_distance(hash1, hash2) < threshold: the threshold itself excluded
are_similar_Strict(hash1, hash2, threshold) == hamming_distance(hash1, hash2) < threshold

\* PerceptualHasher::are_similar
are_similar(hash1, hash2, threshold) == hamming_distance(hash1, hash2) <= threshold

(***************************************************************************)
(* FileInfo.                                                               *)
(***************************************************************************)
\* FileInfo::is_image
is_image(f) == f.file_type = "Image"

(***************************************************************************)
(* DuplicateGroup.                                                         *)
(***************************************************************************)
\* a key that ranks the path length before the modification time
OriginalKey_PathFirst(f) == <<OsStrLen(f.path), f.modified, ComponentsCount(f.path)>>

\* the key of min_by_key in select_original
OriginalKey(f) == <<f.modified, OsStrLen(f.path), ComponentsCount(f.path)>>

\* Ord on the key tuples: lexicographic, strictly less
KeyLess(a, b) ==
    \/ a[1] < b[1]
    \/ a[1] = b[1] /\ a[2] < b[2]
    \/ a[1] = b[1] /\ a[2] = b[2] /\ a[3] < b[3]

RECURSIVE MinByKeyFrom_LastMin(_, _, _)
\* a fold that also replaces the minimum on an equal key: the last of several
\* minimal elements wins
MinByKeyFrom_LastMin(fs, k, best) ==
    IF k >= Len(fs) THEN best
    ELSE MinByKeyFrom_LastMin(fs, k + 1,
            IF ~KeyLess(OriginalKey(fs[best + 1]), OriginalKey(fs[k + 1]))
            THEN k ELSE best)

RECURSIVE MinByKeyFrom(_, _, _)
\* Iterator::min_by_key as a fold over the elements k+1.. of fs with the
\* 0-based index best of the minimum so far: the new element replaces the
\* minimum only when its key is strictly smaller
MinByKeyFrom(fs, k, best) ==
    IF k >= Len(fs) THEN best
    ELSE MinByKeyFrom(fs, k + 1,
            IF KeyLess(OriginalKey(fs[k + 1]), OriginalKey(fs[best + 1]))
            THEN k ELSE best)

\* select_original returning the position counted from 1
select_original_OneBased(fs) == IF fs = <<>> THEN 0 ELSE MinByKeyFrom(fs, 1, 0) + 1

\* DuplicateGroup::select_original
select_original(fs) == IF fs = <<>> THEN 0 ELSE MinByKeyFrom(fs, 1, 0)

\* DuplicateGroup::new
DuplicateGroup_new(group_id, fs) ==
    [ group_id |-> group_id,
      files |-> fs,
      exact_hash |-> None,
      perceptual_hash |-> None,
      recommended_original |-> select_original(fs) ]

\* DuplicateGroup::with_exact_hash
with_exact_hash(g, hash) == [g EXCEPT !.exact_hash = Some(hash)]

\* with_perceptual_hash that stores the fingerprint in the exact_hash field
with_perceptual_hash_AsExact(g, hash) == [g EXCEPT !.exact_hash = Some(hash)]

\* DuplicateGroup::with_perceptual_hash
with_perceptual_hash(g, hash) == [g EXCEPT !.perceptual_hash = Some(hash)]

RECURSIVE SumSizes(_)
\* files.iter().map(|f| f.size).sum()
SumSizes(fs) == IF fs = <<>> THEN 0 ELSE Head(fs).size + SumSizes(Tail(fs))

\* DuplicateGroup::total_size
total_size(g) == SumSizes(g.files)

\* wasted_space that takes the first member for the original
wasted_space_FirstFile(g) ==
    IF g.files = <<>> THEN 0
    ELSE total_size(g) - g.files[1].size

\* DuplicateGroup::wasted_space; the u64 subtraction is kept as the integer
\* difference, so that an underflow shows as a negative value
wasted_space(g) ==
    IF g.files = <<>> THEN 0
    ELSE total_size(g) - g.files[g.recommended_original + 1].size

\* DuplicateGroup::file_count
file_count(g) == Len(g.files)

(***************************************************************************)
(* State.                                                                  *)
(***************************************************************************)
VARIABLES
    call,                  \* the entry point this run exercises
    pc,                    \* position of the caller inside the entry point
    files,                 \* the argument files: Vec<FileInfo>
    disk,                  \* the file system: path -> bytes and readability
    similarity_threshold,  \* HashGrouper.similarity_threshold
    progress,              \* TRUE when progress is Some(&ProgressBar)
    task,                  \* per input index: position of the for_each closure
    lock,                  \* holder of the hash_map Mutex (0: free)
    hash_map,              \* HashMap<Vec<u8>, Vec<FileInfo>> behind the Mutex
    counter,               \* AtomicUsize counter
    count,                 \* per input index: the closure's local count
    pb_position,           \* positions given to pb.set_position, in order
    perceptual_hashes,     \* find_similar_images: Vec<u64>
    assigned,              \* find_similar_images: Vec<bool>
    sim_i,                 \* find_similar_images: index of the running loop
    groups,                \* the Vec<DuplicateGroup> built so far / returned
    result,                \* "none" while running, then "ok", "err" or "panic"
    prev,                  \* summary of the result of an earlier call on the same input
    poisoned,              \* the poison flag of the hash_map Mutex
    reader,                \* ExactHasher::compute_hash: per call, its file, buffer and hasher
    file_hashes,           \* ExactHasher::files_equal: the hashes computed so far
    ret,                   \* the value a call of a pure function returned
    caller,                \* find_duplicates: where the caller of the stage stands
    app,                   \* the App of the browsing layer
    key,                   \* the key event run_app read last
    stdin_line,            \* the answer run_app read to a confirmation prompt
    deletions              \* the attempts of a confirmed DeleteMarked, in order

vars ==
    << call, pc, files, disk, similarity_threshold, progress, task, lock,
       hash_map, counter, count, pb_position, perceptual_hashes, assigned,
       sim_i, groups, result, prev, poisoned, reader,
       file_hashes, ret, caller, app, key, stdin_line, deletions >>

aggVars == << task, lock, hash_map, counter, count, pb_position, poisoned >>
hashVars == << reader, file_hashes >>
tuiVars == << app, key, stdin_line, deletions >>
simVars == << perceptual_hashes, assigned, sim_i >>
inputVars == << call, files, disk, similarity_threshold, progress >>

(***************************************************************************)
(* Inputs.                                                                 *)
(***************************************************************************)
\* the files a scan can deliver, in the order WalkDir meets them: path,
\* modification time and the media type MediaFilter derives from the
\* extension.  The first two tie on the whole key of select_original, the
\* third has the shorter path and the later time, the fourth is no image.
\* The catalog holds four files, so no input is longer than four.
Catalog ==
    << [path |-> P_a_f1, modified |-> 1, file_type |-> "Image"],
       [path |-> P_a_f2, modified |-> 1, file_type |-> "Image"],
       [path |-> P_f3, modified |-> 2, file_type |-> "Image"],
       [path |-> P_a_v4, modified |-> 1, file_type |-> "Video"] >>

\* FileInfo::new as FileCollector::process_entry calls it: the size is the
\* length metadata reports for the bytes on disk
FileInfo_new(path, size, modified, file_type) ==
    [path |-> path, size |-> size, modified |-> modified, file_type |-> file_type]

\* sequences of length n over S without repetition
InjSeqs(S, n) ==
    { s \in [1..n -> S] : \A i, j \in 1..n : i # j => s[i] # s[j] }

\* the paths of a Vec<FileInfo>
PathsOf(fs) == { fs[i].path : i \in DOMAIN fs }

\* the local state of a call that has not started
FreshCall ==
    /\ task = [i \in DOMAIN files |-> "todo"]
    /\ lock = 0
    /\ hash_map = << >>
    /\ counter = 0
    /\ count = [i \in DOMAIN files |-> 0]
    /\ pb_position = << >>
    /\ perceptual_hashes = << >>
    /\ assigned = [i \in DOMAIN files |-> FALSE]
    /\ sim_i = 0
    /\ groups = << >>
    /\ result = "none"
    /\ poisoned = FALSE
    /\ reader = << >>
    /\ file_hashes = << >>
    /\ ret = None
    /\ caller = "none"
    /\ app = None
    /\ key = None
    /\ stdin_line = None
    /\ deletions = None

\* the selections of n catalog entries a call is run on.  find_similar_images
\* depends on the order of its input, so it gets every order; the workers of
\* group_by_exact_hash take the items in any order whatever the order of
\* the Vec, so it gets the entries in catalog order
Selections(c, n) ==
    IF c = "find_similar_images"
    THEN InjSeqs(DOMAIN Catalog, n)
    ELSE { s \in InjSeqs(DOMAIN Catalog, n) :
             \A i, j \in 1..n : i < j => s[i] < s[j] }

\* a scan result of n files (distinct paths) and the disk under it
ScanInput(c, n) ==
    \E cs \in Selections(c, n) : \E ds \in [1..n -> DiskStates] :
        /\ files = [i \in 1..n |->
                      FileInfo_new(Catalog[cs[i]].path, Len(ds[i].bytes),
                                   Catalog[cs[i]].modified, Catalog[cs[i]].file_type)]
        /\ disk = [p \in { Catalog[cs[i]].path : i \in 1..n } |->
                      ds[CHOOSE i \in 1..n : Catalog[cs[i]].path = p]]

Init ==
    /\ call \in {"group_by_exact_hash", "find_similar_images"}
    /\ pc = "start"
    /\ \E n \in 0..MaxFiles : ScanInput(call, n)
    /\ similarity_threshold \in
         IF call = "find_similar_images" THEN 0..MaxThreshold ELSE {0}
    /\ progress \in BOOLEAN
    /\ FreshCall
    /\ prev = None

(***************************************************************************)
(* HashGrouper::group_by_exact_hash.                                       *)
(***************************************************************************)
\* closures of par_iter().for_each that a worker is running
InFlight == { i \in DOMAIN task : task[i] \in {"lock", "insert", "count", "report"} }

\* a worker of the pool is free to take the next item; rayon's splitting of
\* the slice is not modelled: a free worker takes any item not yet taken
WorkerFree == Cardinality(InFlight) < NumWorkers

\* compute_hash(&file.path)? in place of `if let Ok`: a file that fails to
\* hash ends the whole call with its error
StartTask_Abort(i) ==
    /\ call = "group_by_exact_hash" /\ pc = "start"
    /\ task[i] = "todo"
    /\ WorkerFree
    /\ IF ExactHasher_compute_hash(disk, files[i].path).ok
       THEN /\ task' = [task EXCEPT ![i] = "lock"]
            /\ UNCHANGED << pc, result >>
       ELSE /\ task' = [task EXCEPT ![i] = "done"]
            /\ result' = "err"
            /\ pc' = "done"
    /\ UNCHANGED << inputVars, lock, hash_map, counter, count, pb_position,
                    poisoned, simVars, groups, prev, hashVars, ret,
                    caller, tuiVars >>

\* lines 58-60: a free worker takes item i and computes its hash
StartTask(i) ==
    /\ call = "group_by_exact_hash" /\ pc = "start"
    /\ task[i] = "todo"
    /\ WorkerFree
    /\ task' = [task EXCEPT ![i] =
                  IF ExactHasher_compute_hash(disk, files[i].path).ok
                  THEN "lock" ELSE "count"]
    /\ UNCHANGED << inputVars, pc, lock, hash_map, counter, count, pb_position,
                    poisoned, simVars, groups, result, prev, hashVars, ret,
                    caller, tuiVars >>

\* a lock that grants the guard whoever holds it
CanLock_Always(i) == TRUE

\* Mutex::lock grants the guard to the closure of item i
CanLock(i) == lock = 0

\* hash_map.try_lock(): a closure that finds the lock taken skips its insert
AcquireLock_TryLock(i) ==
    /\ call = "group_by_exact_hash" /\ pc = "start"
    /\ task[i] = "lock"
    /\ IF lock = 0
       THEN /\ lock' = i
            /\ task' = [task EXCEPT ![i] = "insert"]
       ELSE /\ lock' = lock
            /\ task' = [task EXCEPT ![i] = "count"]
    /\ UNCHANGED << inputVars, pc, hash_map, counter, count, pb_position,
                    poisoned, simVars, groups, result, prev, hashVars, ret,
                    caller, tuiVars >>

\* line 62: hash_map.lock(); on a poisoned mutex lock() returns Err, the
\* guard inside the error is dropped at once and the closure skips its insert
AcquireLock(i) ==
    /\ call = "group_by_exact_hash" /\ pc = "start"
    /\ task[i] = "lock"
    /\ CanLock(i)
    /\ IF poisoned
       THEN /\ lock' = lock
            /\ task' = [task EXCEPT ![i] = "count"]
       ELSE /\ lock' = i
            /\ task' = [task EXCEPT ![i] = "insert"]
    /\ UNCHANGED << inputVars, pc, hash_map, counter, count, pb_position,
                    poisoned, simVars, groups, result, prev, hashVars, ret,
                    caller, tuiVars >>

\* map.insert(hash, vec![file]): a later file replaces the bucket
EntryPush_Insert(map, hash, file) ==
    IF hash \in DOMAIN map
    THEN [map EXCEPT ![hash] = << file >>]
    ELSE map @@ (hash :> << file >>)

\* map.entry(hash).or_default().push(file)
EntryPush(map, hash, file) ==
    IF hash \in DOMAIN map
    THEN [map EXCEPT ![hash] = Append(@, file)]
    ELSE map @@ (hash :> << file >>)

\* lines 63-64: the insert under the guard, and the guard's drop
Insert(i) ==
    /\ call = "group_by_exact_hash" /\ pc = "start"
    /\ task[i] = "insert"
    /\ hash_map' = EntryPush(hash_map,
                             ExactHasher_compute_hash(disk, files[i].path).val,
                             files[i])
    /\ lock' = 0
    /\ task' = [task EXCEPT ![i] = "count"]
    /\ UNCHANGED << inputVars, pc, counter, count, pb_position,
                    poisoned, simVars, groups, result, prev, hashVars, ret,
                    caller, tuiVars >>

\* line 68: counter.fetch_add(1, Relaxed)
FetchAdd(i) ==
    /\ call = "group_by_exact_hash" /\ pc = "start"
    /\ task[i] = "count"
    /\ count' = [count EXCEPT ![i] = counter]
    /\ counter' = counter + 1
    /\ task' = [task EXCEPT ![i] = IF progress THEN "report" ELSE "done"]
    /\ UNCHANGED << inputVars, pc, lock, hash_map, pb_position,
                    poisoned, simVars, groups, result, prev, hashVars, ret,
                    caller, tuiVars >>

\* lines 69-76: pb.set_message, pb.set_position(count + 1)
Report(i) ==
    /\ call = "group_by_exact_hash" /\ pc = "start"
    /\ task[i] = "report"
    /\ pb_position' = Append(pb_position, count[i] + 1)
    /\ task' = [task EXCEPT ![i] = "done"]
    /\ UNCHANGED << inputVars, pc, lock, hash_map, counter, count,
                    poisoned, simVars, groups, result, prev, hashVars, ret,
                    caller, tuiVars >>

\* filter(|(_, files)| files.len() > 0): every bucket survives
IsDuplicateBucket_NonEmpty(bucket) == Len(bucket) > 0

\* the buckets that survive filter(|(_, files)| files.len() > 1)
IsDuplicateBucket(bucket) == Len(bucket) > 1

\* the groups numbered by enumerate() ahead of the filter, the buckets of
\* one file coming first: a discarded bucket uses up an id
GroupsOfBuckets_NumberedBeforeFilter(map, order) ==
    LET dropped == Cardinality({ h \in DOMAIN map : ~IsDuplicateBucket(map[h]) })
    IN [k \in 1..Len(order) |->
          with_exact_hash(DuplicateGroup_new(dropped + k - 1, map[order[k]]), order[k])]

\* enumerate().map(...): the groups of the surviving buckets taken in the
\* order the HashMap iterator yields their keys
GroupsOfBuckets(map, order) ==
    [k \in 1..Len(order) |->
        with_exact_hash(DuplicateGroup_new(k - 1, map[order[k]]), order[k])]

\* line 77: for_each returns once the closure has run to its end on every item
ForEachReturned == \A i \in DOMAIN task : task[i] = "done"

\* lines 79-95: after for_each has returned, into_inner (an error when the
\* mutex is poisoned, which `?` returns), filter, enumerate, map, collect;
\* HashMap::into_iter yields the buckets in any order
Collect ==
    /\ call = "group_by_exact_hash" /\ pc = "start"
    /\ ForEachReturned
    /\ IF poisoned
       THEN /\ groups' = << >>
            /\ result' = "err"
       ELSE /\ LET keys == { h \in DOMAIN hash_map : IsDuplicateBucket(hash_map[h]) }
               IN \E order \in InjSeqs(keys, Cardinality(keys)) :
                    groups' = GroupsOfBuckets(hash_map, order)
            /\ result' = "ok"
    /\ pc' = "done"
    /\ UNCHANGED << inputVars, aggVars, simVars, prev, hashVars, ret,
                    caller, tuiVars >>

\* what a caller can compare between two calls on the same input: which
\* files are grouped together, and which file of each group is recommended
Summary(gs) ==
    [ partition |-> { PathsOf(gs[k].files) : k \in DOMAIN gs },
      originals |-> { gs[k].files[gs[k].recommended_original + 1].path : k \in DOMAIN gs } ]

\* lines 50-55 again: the caller keeps what the first call returned and calls
\* group_by_exact_hash a second time on the same files (a fresh map, a fresh
\* counter, a fresh progress bar)
Rerun ==
    /\ call = "group_by_exact_hash" /\ pc = "done"
    /\ prev = None
    /\ prev' = Some(Summary(groups))
    /\ pc' = "start"
    /\ task' = [i \in DOMAIN files |-> "todo"]
    /\ lock' = 0
    /\ hash_map' = << >>
    /\ counter' = 0
    /\ count' = [i \in DOMAIN files |-> 0]
    /\ pb_position' = << >>
    /\ groups' = << >>
    /\ result' = "none"
    /\ poisoned' = FALSE
    /\ UNCHANGED << inputVars, simVars, hashVars, ret, caller, tuiVars >>

(***************************************************************************)
(* HashGrouper::find_similar_images.                                       *)
(***************************************************************************)
\* lines 119-132: one iteration of the loop that computes the perceptual
\* hashes; `?` returns the error of compute_hash to the caller
SimHash ==
    /\ call = "find_similar_images" /\ pc = "start"
    /\ Len(perceptual_hashes) < Len(files)
    /\ LET index == Len(perceptual_hashes)
           file == files[index + 1]
           hash == PerceptualHasher_compute_hash(file.path)
       IN /\ pb_position' = IF progress THEN Append(pb_position, index)
                                        ELSE pb_position
          /\ IF is_image(file)
             THEN IF hash.ok
                  THEN /\ perceptual_hashes' = Append(perceptual_hashes, hash.val)
                       /\ UNCHANGED << pc, result >>
                  ELSE /\ result' = "err"
                       /\ pc' = "done"
                       /\ UNCHANGED perceptual_hashes
             ELSE /\ perceptual_hashes' = Append(perceptual_hashes, 0)
                  /\ UNCHANGED << pc, result >>
    /\ UNCHANGED << inputVars, task, lock, hash_map, counter, count, poisoned,
                    assigned, sim_i, groups, prev, hashVars, ret,
                    caller, tuiVars >>

\* assigned kept in the HashGrouper between calls: a later call starts from
\* the flags the call before it left
SimInitGroups_KeepAssigned ==
    /\ call = "find_similar_images" /\ pc = "start"
    /\ Len(perceptual_hashes) = Len(files)
    /\ groups' = << >>
    /\ assigned' = assigned
    /\ sim_i' = 0
    /\ pc' = "cluster"
    /\ UNCHANGED << inputVars, aggVars, perceptual_hashes, result, prev, hashVars, ret,
                    caller, tuiVars >>

\* lines 135-136: groups = Vec::new(), assigned = vec![false; files.len()]
SimInitGroups ==
    /\ call = "find_similar_images" /\ pc = "start"
    /\ Len(perceptual_hashes) = Len(files)
    /\ groups' = << >>
    /\ assigned' = [i \in DOMAIN files |-> FALSE]
    /\ sim_i' = 0
    /\ pc' = "cluster"
    /\ UNCHANGED << inputVars, aggVars, perceptual_hashes, result, prev, hashVars, ret,
                    caller, tuiVars >>

\* `if assigned[j] { continue; }`: the inner loop without the is_image test
SkipInner_AssignedOnly(fs, asg, j) == asg[j + 1]

\* line 148: the inner loop skips j
SkipInner(fs, asg, j) == asg[j + 1] \/ ~is_image(fs[j + 1])

RECURSIVE InnerLoop_NoMark(_, _, _, _, _, _)
\* the inner loop without `assigned[j] = true`
InnerLoop_NoMark(fs, hashes, threshold, i, j, acc) ==
    IF j >= Len(fs) THEN acc
    ELSE IF acc[2][j + 1] \/ ~is_image(fs[j + 1])
         THEN InnerLoop_NoMark(fs, hashes, threshold, i, j + 1, acc)
         ELSE IF are_similar(hashes[i + 1], hashes[j + 1], threshold)
              THEN InnerLoop_NoMark(fs, hashes, threshold, i, j + 1,
                                    << Append(acc[1], fs[j + 1]), acc[2] >>)
              ELSE InnerLoop_NoMark(fs, hashes, threshold, i, j + 1, acc)

RECURSIVE InnerLoop_Chain(_, _, _, _, _, _)
\* the inner loop comparing j with the member added last: single-link chaining
InnerLoop_Chain(fs, hashes, threshold, i, j, acc) ==
    IF j >= Len(fs) THEN acc
    ELSE IF acc[2][j + 1] \/ ~is_image(fs[j + 1])
         THEN InnerLoop_Chain(fs, hashes, threshold, i, j + 1, acc)
         ELSE IF are_similar(hashes[i + 1], hashes[j + 1], threshold)
              THEN InnerLoop_Chain(fs, hashes, threshold, j, j + 1,
                                   << Append(acc[1], fs[j + 1]),
                                      [acc[2] EXCEPT ![j + 1] = TRUE] >>)
              ELSE InnerLoop_Chain(fs, hashes, threshold, i, j + 1, acc)

RECURSIVE InnerLoop(_, _, _, _, _, _)
\* lines 147-160: the inner loop from j on, over the pair
\* <<similar_files, assigned>>
InnerLoop(fs, hashes, threshold, i, j, acc) ==
    IF j >= Len(fs) THEN acc
    ELSE IF SkipInner(fs, acc[2], j)
         THEN InnerLoop(fs, hashes, threshold, i, j + 1, acc)
         ELSE IF are_similar(hashes[i + 1], hashes[j + 1], threshold)
              THEN InnerLoop(fs, hashes, threshold, i, j + 1,
                             << Append(acc[1], fs[j + 1]),
                                [acc[2] EXCEPT ![j + 1] = TRUE] >>)
              ELSE InnerLoop(fs, hashes, threshold, i, j + 1, acc)

\* `if !files[i].is_image() { continue; }`: an assigned file seeds again
SkipOuter_IgnoreAssigned(fs, asg, i) == ~is_image(fs[i + 1])

\* line 139: the outer loop skips i
SkipOuter(fs, asg, i) == asg[i + 1] \/ ~is_image(fs[i + 1])

\* line 163: the cluster is emitted
IsCluster(similar_files) == Len(similar_files) > 1

\* lines 138-168: one iteration of the outer loop
SimCluster ==
    /\ call = "find_similar_images" /\ pc = "cluster"
    /\ sim_i < Len(files)
    /\ LET i == sim_i IN
       IF SkipOuter(files, assigned, i)
       THEN UNCHANGED << assigned, groups >>
       ELSE LET acc == InnerLoop(files, perceptual_hashes, similarity_threshold,
                                 i, i + 1,
                                 << << files[i + 1] >>,
                                    [assigned EXCEPT ![i + 1] = TRUE] >>)
            IN /\ assigned' = acc[2]
               /\ groups' =
                    IF IsCluster(acc[1])
                    THEN Append(groups,
                                with_perceptual_hash(
                                    DuplicateGroup_new(Len(groups), acc[1]),
                                    perceptual_hashes[i + 1]))
                    ELSE groups
    /\ sim_i' = sim_i + 1
    /\ UNCHANGED << inputVars, pc, aggVars, perceptual_hashes, result, prev,
                    hashVars, ret, caller, tuiVars >>

\* line 170: Ok(groups)
SimReturn ==
    /\ call = "find_similar_images" /\ pc = "cluster"
    /\ sim_i = Len(files)
    /\ result' = "ok"
    /\ pc' = "done"
    /\ UNCHANGED << inputVars, aggVars, simVars, groups, prev, hashVars, ret,
                    caller, tuiVars >>

\* lines 114-118 again: the caller keeps the list the first call returned
\* and calls find_similar_images a second time on the same files with the
\* same threshold; the new call has no hashes and no groups yet, and builds
\* its assigned flags at line 136
SimRerun ==
    /\ call = "find_similar_images" /\ pc = "done" /\ result = "ok"
    /\ prev = None
    /\ prev' = Some(groups)
    /\ pc' = "start"
    /\ perceptual_hashes' = << >>
    /\ pb_position' = << >>
    /\ groups' = << >>
    /\ result' = "none"
    /\ UNCHANGED << inputVars, task, lock, hash_map, counter, count, poisoned,
                    assigned, sim_i, hashVars, ret, caller, tuiVars >>

(***************************************************************************)
(* The engine: one call of either stage on a scan result.                  *)
(***************************************************************************)
Next ==
    \/ \E i \in DOMAIN files : StartTask(i)
    \/ \E i \in DOMAIN files : AcquireLock(i)
    \/ \E i \in DOMAIN files : Insert(i)
    \/ \E i \in DOMAIN files : FetchAdd(i)
    \/ \E i \in DOMAIN files : Report(i)
    \/ Collect
    \/ Rerun
    \/ SimHash
    \/ SimInitGroups
    \/ SimCluster
    \/ SimReturn
    \/ SimRerun

Spec == Init /\ [][Next]_vars

(***************************************************************************)
(* group_by_exact_hash when a closure panics under the guard.  A           *)
(* std::sync::Mutex is poisoned by nothing else: the guard that is dropped *)
(* while its thread unwinds sets the flag.                                 *)
(***************************************************************************)
\* line 63: entry / or_default / push / clone panics while the closure of
\* item i holds the guard; the unwinding drops the guard, which poisons and
\* releases the mutex, and the closure does not reach line 68
Panic(i) ==
    /\ call = "group_by_exact_hash" /\ pc = "start"
    /\ task[i] = "insert"
    /\ poisoned' = TRUE
    /\ lock' = 0
    /\ task' = [task EXCEPT ![i] = "panicked"]
    /\ UNCHANGED << inputVars, pc, hash_map, counter, count, pb_position,
                    simVars, groups, result, prev, hashVars, ret,
                    caller, tuiVars >>

\* a closure has panicked and no closure is running
ForEachPanicked ==
    /\ \E i \in DOMAIN task : task[i] = "panicked"
    /\ InFlight = { }

\* lines 58-77: par_iter().for_each re-raises the panic of a closure in its
\* caller once the closures that were running have ended (items not yet
\* taken may or may not run); the call unwinds before line 80
Unwind ==
    /\ call = "group_by_exact_hash" /\ pc = "start"
    /\ ForEachPanicked
    /\ result' = "panic"
    /\ pc' = "done"
    /\ UNCHANGED << inputVars, aggVars, simVars, groups, prev, hashVars, ret,
                    caller, tuiVars >>

PoisonInit ==
    /\ Init
    /\ call = "group_by_exact_hash"

PoisonNext ==
    \/ \E i \in DOMAIN files : StartTask(i)
    \/ \E i \in DOMAIN files : AcquireLock(i)
    \/ \E i \in DOMAIN files : Insert(i)
    \/ \E i \in DOMAIN files : Panic(i)
    \/ \E i \in DOMAIN files : FetchAdd(i)
    \/ \E i \in DOMAIN files : Report(i)
    \/ Collect
    \/ Unwind

PoisonSpec == PoisonInit /\ [][PoisonNext]_vars

(***************************************************************************)
(* DuplicateGroup::new on any member list.                                 *)
(***************************************************************************)
\* paths of the members: two of equal length and depth, one of the same
\* length with fewer components, one shorter, one longer
MemberPaths == { P_a_f1, P_a_f2, P_abc, P_f3, P_a_b_f5 }

\* the member records handed to DuplicateGroup::new
Members ==
    { FileInfo_new(p, Len(ContentA), t, "Image") : p \in MemberPaths, t \in 1..MaxTime }

GroupInit ==
    /\ call = "DuplicateGroup::new"
    /\ pc = "start"
    /\ \E n \in 0..MaxMembers : files \in [1..n -> Members]
    /\ disk = << >>
    /\ similarity_threshold = 0
    /\ progress = FALSE
    /\ FreshCall
    /\ prev = None

\* DuplicateGroup::new(0, files)
GroupNew ==
    /\ call = "DuplicateGroup::new" /\ pc = "start"
    /\ groups' = << DuplicateGroup_new(0, files) >>
    /\ result' = "ok"
    /\ pc' = "done"
    /\ UNCHANGED << inputVars, aggVars, simVars, prev, hashVars, ret,
                    caller, tuiVars >>

GroupNext == GroupNew

GroupSpec == GroupInit /\ [][GroupNext]_vars

(***************************************************************************)
(* find_similar_images over a hasher that decodes its images.  The         *)
(* compute_hash of perceptual_hash.rs is a stub that returns Ok(0) for     *)
(* every path; the average hash below is the contract the specification    *)
(* gives for it (4.2), on a grid of HashBits samples.  The clustering loop *)
(* is the code's.                                                          *)
(***************************************************************************)
\* an image whose samples are dark but for the last k, which are bright
Grid(k) == [x \in 1..HashBits |-> IF x > HashBits - k THEN 1 ELSE 0]

\* what a file of the scan can hold: an image of one of the grids, or bytes
\* that no decoder accepts
ImageStates ==
    { [readable |-> TRUE, bytes |-> Grid(k)] : k \in 1..(HashBits - 1) }
        \cup { [readable |-> TRUE, bytes |-> << 0 >>] }

\* decoding to the grayscale grid: the bytes of an image are its samples
Decode(d, path) ==
    IF d[path].readable /\ Len(d[path].bytes) = HashBits
    THEN Ok(d[path].bytes)
    ELSE Err("Image")

RECURSIVE SumSamples(_, _)
\* the sum of the first n samples
SumSamples(samples, n) ==
    IF n = 0 THEN 0 ELSE samples[n] + SumSamples(samples, n - 1)

\* bit k of the average hash: the sample is at least the mean of the grid
AverageBit(samples, k) ==
    IF samples[k] * Len(samples) >= SumSamples(samples, Len(samples)) THEN 1 ELSE 0

RECURSIVE PackBits(_, _)
\* the first n decisions packed most-significant-bit-first
PackBits(samples, n) ==
    IF n = 0 THEN 0 ELSE 2 * PackBits(samples, n - 1) + AverageBit(samples, n)

\* compute_hash as the contract has it: the fingerprint of a decodable
\* image, an error for anything else
AverageHash_compute_hash(d, path) ==
    IF Decode(d, path).ok
    THEN Ok(PackBits(Decode(d, path).val, HashBits))
    ELSE Err("Image")

\* lines 119-132 with that hasher: one iteration of the loop that computes
\* the perceptual hashes; `?` returns the error of compute_hash to the caller
SimHashDecoded ==
    /\ call = "find_similar_images" /\ pc = "start"
    /\ Len(perceptual_hashes) < Len(files)
    /\ LET index == Len(perceptual_hashes)
           file == files[index + 1]
           hash == AverageHash_compute_hash(disk, file.path)
       IN /\ pb_position' = IF progress THEN Append(pb_position, index)
                                        ELSE pb_position
          /\ IF is_image(file)
             THEN IF hash.ok
                  THEN /\ perceptual_hashes' = Append(perceptual_hashes, hash.val)
                       /\ UNCHANGED << pc, result >>
                  ELSE /\ result' = "err"
                       /\ pc' = "done"
                       /\ UNCHANGED perceptual_hashes
             ELSE /\ perceptual_hashes' = Append(perceptual_hashes, 0)
                  /\ UNCHANGED << pc, result >>
    /\ UNCHANGED << inputVars, task, lock, hash_map, counter, count, poisoned,
                    assigned, sim_i, groups, prev, hashVars, ret,
                    caller, tuiVars >>

\* a scan result of n files in any order, each holding an image or not
ImageScanInput(n) ==
    \E cs \in InjSeqs(DOMAIN Catalog, n) : \E ds \in [1..n -> ImageStates] :
        /\ files = [i \in 1..n |->
                      FileInfo_new(Catalog[cs[i]].path, Len(ds[i].bytes),
                                   Catalog[cs[i]].modified, Catalog[cs[i]].file_type)]
        /\ disk = [p \in { Catalog[cs[i]].path : i \in 1..n } |->
                      ds[CHOOSE i \in 1..n : Catalog[cs[i]].path = p]]

SimInit ==
    /\ call = "find_similar_images"
    /\ pc = "start"
    /\ \E n \in 0..MaxFiles : ImageScanInput(n)
    /\ similarity_threshold \in 0..MaxThreshold
    /\ progress \in BOOLEAN
    /\ FreshCall
    /\ prev = None

SimNext ==
    \/ SimHashDecoded
    \/ SimInitGroups
    \/ SimCluster
    \/ SimReturn
    \/ SimRerun

SimSpec == SimInit /\ [][SimNext]_vars

(***************************************************************************)
(* ExactHasher::files_equal: two calls of compute_hash, each reading its   *)
(* file chunk by chunk.                                                    *)
(***************************************************************************)
\* the bytes a file can hold
ByteValues == {1, 2}

\* the contents of a file: every byte string of up to MaxBytes bytes
Contents == UNION { [1..n -> ByteValues] : n \in 0..MaxBytes }

\* Sha256::new(), update(data), finalize(): the digest is the digest of all
\* the bytes the hasher was given, in order
Sha256_new == << >>
Sha256_update(hasher, data) == hasher \o data
Sha256_finalize(hasher) == Sha256(hasher)

\* line 17: [0u8; 65536]
ZeroBuffer == [k \in 1..BufferSize |-> 0]

\* reader.read(&mut buffer) that returns n: the next n bytes of the file
\* over the start of the buffer, the rest of the buffer as it was
ReadInto(buffer, bytes, pos, n) ==
    [k \in 1..BufferSize |-> IF k <= n THEN bytes[pos + k] ELSE buffer[k]]

\* &buffer: the whole buffer, stale bytes included
Chunk_WholeBuffer(buffer, n) == buffer

\* line 24: &buffer[..n]
Chunk(buffer, n) == SubSeq(buffer, 1, n)

\* the compute_hash call that is running, if any
Reading == Len(reader) > 0 /\ reader[Len(reader)].open

\* lines 13-17 and 38-39: files_equal calls compute_hash on its next path;
\* `?` returns the error of File::open
HashOpen ==
    /\ call = "files_equal" /\ pc = "start"
    /\ ~Reading
    /\ Len(file_hashes) < Len(files)
    /\ LET path == files[Len(file_hashes) + 1].path
       IN IF disk[path].readable
          THEN /\ reader' = Append(reader,
                                   [path |-> path, pos |-> 0, buffer |-> ZeroBuffer,
                                    hasher |-> Sha256_new, reads |-> << >>,
                                    open |-> TRUE])
               /\ UNCHANGED << pc, result >>
          ELSE /\ result' = "err"
               /\ pc' = "done"
               /\ UNCHANGED reader
    /\ UNCHANGED << inputVars, aggVars, simVars, groups, prev, file_hashes, ret,
                    caller, tuiVars >>

\* lines 19-27: one iteration of the loop.  read returns 0 at the end of the
\* file and otherwise any number of bytes from 1 up to the size of the
\* buffer that the file still has; `reads` keeps the numbers returned
HashRead ==
    /\ call = "files_equal" /\ pc = "start"
    /\ Reading
    /\ LET r == reader[Len(reader)]
           bytes == disk[r.path].bytes
           left == Len(bytes) - r.pos
       IN \E n \in 0..BufferSize :
            /\ n <= left
            /\ n = 0 <=> left = 0
            /\ IF n = 0
               THEN /\ reader' = [reader EXCEPT ![Len(reader)].open = FALSE,
                                                ![Len(reader)].reads = Append(@, n)]
                    /\ file_hashes' = Append(file_hashes, Sha256_finalize(r.hasher))
               ELSE /\ reader' =
                         [reader EXCEPT ![Len(reader)] =
                            LET buffer == ReadInto(r.buffer, bytes, r.pos, n)
                            IN [r EXCEPT !.buffer = buffer,
                                         !.pos = r.pos + n,
                                         !.hasher = Sha256_update(r.hasher, Chunk(buffer, n)),
                                         !.reads = Append(r.reads, n)]]
                    /\ UNCHANGED file_hashes
    /\ UNCHANGED << inputVars, pc, aggVars, simVars, groups, result, prev, ret,
                    caller, tuiVars >>

\* line 40: Ok(hash1 == hash2)
HashCompare ==
    /\ call = "files_equal" /\ pc = "start"
    /\ ~Reading
    /\ Len(file_hashes) = Len(files)
    /\ ret' = Some(file_hashes[1] = file_hashes[2])
    /\ result' = "ok"
    /\ pc' = "done"
    /\ UNCHANGED << inputVars, aggVars, simVars, groups, prev, hashVars,
                    caller, tuiVars >>

\* two files of any contents, readable or not
HashInit ==
    /\ call = "files_equal"
    /\ pc = "start"
    /\ disk \in [{P_a_f1, P_a_f2} -> [readable : BOOLEAN, bytes : Contents]]
    /\ files = << FileInfo_new(P_a_f1, Len(disk[P_a_f1].bytes), 1, "Image"),
                  FileInfo_new(P_a_f2, Len(disk[P_a_f2].bytes), 1, "Image") >>
    /\ similarity_threshold = 0
    /\ progress = FALSE
    /\ FreshCall
    /\ prev = None

HashNext ==
    \/ HashOpen
    \/ HashRead
    \/ HashCompare

HashSpec == HashInit /\ [][HashNext]_vars

(***************************************************************************)
(* PerceptualHasher::hamming_distance and are_similar on any pair of       *)
(* fingerprints.                                                           *)
(***************************************************************************)
\* the fingerprints of HashBits bits
Fingerprints == 0..(2^HashBits - 1)

\* the arguments hash1, hash2 (kept in perceptual_hashes) and threshold
PairInit ==
    /\ call \in {"hamming_distance", "are_similar"}
    /\ pc = "start"
    /\ files = << >>
    /\ disk = << >>
    /\ similarity_threshold \in IF call = "are_similar" THEN 0..HashBits ELSE {0}
    /\ progress = FALSE
    /\ perceptual_hashes \in [1..2 -> Fingerprints]
    /\ task = << >> /\ lock = 0 /\ hash_map = << >> /\ counter = 0
    /\ count = << >> /\ pb_position = << >> /\ poisoned = FALSE
    /\ assigned = << >> /\ sim_i = 0
    /\ groups = << >>
    /\ result = "none"
    /\ prev = None
    /\ reader = << >> /\ file_hashes = << >>
    /\ ret = None
    /\ caller = "none" /\ app = None /\ key = None
    /\ stdin_line = None /\ deletions = None

\* PerceptualHasher::hamming_distance(hash1, hash2)
HammingDistance ==
    /\ call = "hamming_distance" /\ pc = "start"
    /\ ret' = Some(hamming_distance(perceptual_hashes[1], perceptual_hashes[2]))
    /\ pc' = "done"
    /\ UNCHANGED << inputVars, aggVars, simVars, groups, result, prev, hashVars,
                    caller, tuiVars >>

\* PerceptualHasher::are_similar(hash1, hash2, threshold)
AreSimilar ==
    /\ call = "are_similar" /\ pc = "start"
    /\ ret' = Some(are_similar(perceptual_hashes[1], perceptual_hashes[2],
                               similarity_threshold))
    /\ pc' = "done"
    /\ UNCHANGED << inputVars, aggVars, simVars, groups, result, prev, hashVars,
                    caller, tuiVars >>

PairNext ==
    \/ HammingDistance
    \/ AreSimilar

PairSpec == PairInit /\ [][PairNext]_vars

(***************************************************************************)
(* PerceptualHasher::compute_hash on any image.                            *)
(***************************************************************************)
\* the grayscale grids of HashBits samples with luminance 0..MaxSample
SampleGrids == [1..HashBits -> 0..MaxSample]

\* one image file on disk, holding any grid
PHashInit ==
    /\ call = "compute_hash"
    /\ pc = "start"
    /\ \E grid \in SampleGrids :
         /\ disk = (P_a_f1 :> [readable |-> TRUE, bytes |-> grid])
         /\ files = << FileInfo_new(P_a_f1, Len(grid), 1, "Image") >>
    /\ similarity_threshold = 0
    /\ progress = FALSE
    /\ FreshCall
    /\ prev = None

\* perceptual_hasher.compute_hash(&file.path)
ComputeHash ==
    /\ call = "compute_hash" /\ pc = "start"
    /\ ret' = Some(PerceptualHasher_compute_hash(files[1].path))
    /\ pc' = "done"
    /\ UNCHANGED << inputVars, aggVars, simVars, groups, result, prev, hashVars,
                    caller, tuiVars >>

PHashNext == ComputeHash

PHashSpec == PHashInit /\ [][PHashNext]_vars

(***************************************************************************)
(* The browsing layer: App (tui/app.rs) and handle_key_event               *)
(* (tui/event/key_handler.rs).  An App is a record of its fields; a method *)
(* taking &mut self is the function from the App before to the App after.  *)
(***************************************************************************)
\* KeyCode of the key events: the keys handle_key_event names, and one key
\* ("x") for every other
KeyCodes ==
    { "Up", "Down", "j", "k", "Tab", "BackTab", "h", "Space", "Enter", "q", "?",
      "o", "d", "D", "u", "PageDown", "PageUp", "Home", "End", "x" }

\* for _ in 0..5: the groups PageDown and PageUp move by
PageGroups == 5

\* usize::saturating_sub
saturating_sub(x, y) == IF x >= y THEN x - y ELSE 0

\* App::new
App_new(duplicate_groups) ==
    [ should_quit |-> FALSE,
      mode |-> IF duplicate_groups # << >> THEN "Tutorial" ELSE "Normal",
      duplicate_groups |-> duplicate_groups,
      selected_group |-> 0,
      selected_file |-> 0,
      marked_files |-> { },
      show_tutorial |-> duplicate_groups # << >>,
      tutorial_step |-> 0 ]

\* App::current_group: duplicate_groups.get(selected_group)
current_group(a) ==
    IF a.selected_group < Len(a.duplicate_groups)
    THEN Some(a.duplicate_groups[a.selected_group + 1])
    ELSE None

\* App::group_count
group_count(a) == Len(a.duplicate_groups)

\* App::file_count
App_file_count(a) ==
    IF current_group(a) # None THEN file_count(current_group(a)[1]) ELSE 0

\* next_group that moves on without looking at the number of groups
next_group_NoSaturate(a) ==
    [a EXCEPT !.selected_group = @ + 1, !.selected_file = 0]

\* App::next_group
next_group(a) ==
    IF a.selected_group < saturating_sub(group_count(a), 1)
    THEN [a EXCEPT !.selected_group = @ + 1, !.selected_file = 0]
    ELSE a

\* previous_group that keeps selected_file
previous_group_KeepFile(a) ==
    IF a.selected_group > 0
    THEN [a EXCEPT !.selected_group = @ - 1]
    ELSE a

\* App::previous_group
previous_group(a) ==
    IF a.selected_group > 0
    THEN [a EXCEPT !.selected_group = @ - 1, !.selected_file = 0]
    ELSE a

\* App::next_file
next_file(a) ==
    IF current_group(a) # None /\ file_count(current_group(a)[1]) > 0
    THEN [a EXCEPT !.selected_file = (@ + 1) % file_count(current_group(a)[1])]
    ELSE a

\* App::previous_file
previous_file(a) ==
    IF current_group(a) # None /\ file_count(current_group(a)[1]) > 0
    THEN [a EXCEPT !.selected_file =
            IF @ = 0 THEN file_count(current_group(a)[1]) - 1 ELSE @ - 1]
    ELSE a

RECURSIVE FilesBefore(_, _)
\* the sum of file_count over the first n groups
FilesBefore(gs, n) ==
    IF n = 0 THEN 0 ELSE FilesBefore(gs, n - 1) + file_count(gs[n])

\* a flat index that counts the groups before group_idx, not their files
get_global_file_index_GroupsBefore(a, group_idx, file_idx) ==
    IF group_idx < Len(a.duplicate_groups)
    THEN group_idx + file_idx
    ELSE Len(a.duplicate_groups)

\* App::get_global_file_index: the files of the groups before group_idx,
\* plus file_idx; the files of all groups when group_idx is no group
get_global_file_index(a, group_idx, file_idx) ==
    IF group_idx < Len(a.duplicate_groups)
    THEN FilesBefore(a.duplicate_groups, group_idx) + file_idx
    ELSE FilesBefore(a.duplicate_groups, Len(a.duplicate_groups))

\* App::toggle_mark
toggle_mark(a) ==
    IF current_group(a) # None
    THEN LET global_index ==
                 get_global_file_index(a, a.selected_group, a.selected_file)
         IN IF global_index \in a.marked_files
            THEN [a EXCEPT !.marked_files = @ \ {global_index}]
            ELSE [a EXCEPT !.marked_files = @ \cup {global_index}]
    ELSE a

\* App::marked_count
marked_count(a) == Cardinality(a.marked_files)

\* the flat positions of all the files of the groups
FlatIndices(gs) == 0..(FilesBefore(gs, Len(gs)) - 1)

\* the <<group, file>> pair (0-based) the traversal in group order reaches
\* at flat position idx
PairAt(gs, idx) ==
    CHOOSE gf \in { <<g, f>> : g \in 0..(Len(gs) - 1), f \in FlatIndices(gs) } :
        /\ gf[2] < file_count(gs[gf[1] + 1])
        /\ FilesBefore(gs, gf[1]) + gf[2] = idx

RECURSIVE KeepUnmarked(_, _, _, _)
\* the first n files of fs whose flat position, counted from base, is not
\* marked
KeepUnmarked(fs, base, marked, n) ==
    IF n = 0 THEN << >>
    ELSE LET rest == KeepUnmarked(fs, base, marked, n - 1)
         IN IF (base + n - 1) \in marked THEN rest ELSE Append(rest, fs[n])

\* clear_marks that also drops the marked files from their groups
clear_marks_RemoveFiles(a) ==
    [a EXCEPT
       !.marked_files = { },
       !.duplicate_groups =
          [g \in DOMAIN a.duplicate_groups |->
             [a.duplicate_groups[g] EXCEPT
                !.files = KeepUnmarked(@, FilesBefore(a.duplicate_groups, g - 1),
                                       a.marked_files, Len(@))]]]

\* marked_count_in_group that counts the marks of the groups up to group_idx
marked_count_in_group_UpTo(a, group_idx) ==
    Cardinality({ idx \in a.marked_files :
                    idx < FilesBefore(a.duplicate_groups,
                                      IF group_idx < Len(a.duplicate_groups)
                                      THEN group_idx + 1
                                      ELSE Len(a.duplicate_groups)) })

\* App::marked_count_in_group: the marks among the flat positions the
\* traversal gives the files of group group_idx
marked_count_in_group(a, group_idx) ==
    IF group_idx < Len(a.duplicate_groups)
    THEN Cardinality({ f \in 0..(file_count(a.duplicate_groups[group_idx + 1]) - 1) :
                         (FilesBefore(a.duplicate_groups, group_idx) + f)
                             \in a.marked_files })
    ELSE 0

\* App::clear_marks
clear_marks(a) == [a EXCEPT !.marked_files = { }]

\* App::show_help
show_help(a) == [a EXCEPT !.mode = "Help"]

\* hide_help that also drops the marks
hide_help_ClearMarks(a) == [a EXCEPT !.mode = "Normal", !.marked_files = { }]

\* App::hide_help
hide_help(a) == [a EXCEPT !.mode = "Normal"]

\* App::exit_tutorial
exit_tutorial(a) == [a EXCEPT !.mode = "Normal", !.show_tutorial = FALSE]

\* next_tutorial_step that leaves the tutorial one step later
next_tutorial_step_Late(a) ==
    LET stepped == [a EXCEPT !.tutorial_step = @ + 1]
    IN IF stepped.tutorial_step > 4 THEN exit_tutorial(stepped) ELSE stepped

\* App::next_tutorial_step
next_tutorial_step(a) ==
    LET stepped == [a EXCEPT !.tutorial_step = @ + 1]
    IN IF stepped.tutorial_step > 3 THEN exit_tutorial(stepped) ELSE stepped

\* App::quit
quit(a) == [a EXCEPT !.should_quit = TRUE]

RECURSIVE next_groups(_, _)
\* for _ in 0..n { app.next_group(); }
next_groups(a, n) == IF n = 0 THEN a ELSE next_groups(next_group(a), n - 1)

RECURSIVE previous_groups(_, _)
\* for _ in 0..n { app.previous_group(); }
previous_groups(a, n) ==
    IF n = 0 THEN a ELSE previous_groups(previous_group(a), n - 1)

\* what handle_key_event leaves: the App and the KeyAction returned
Handled(a, action) == [app |-> a, action |-> action]

\* the Tutorial branch with q quitting the program
handle_tutorial_key_QuitOnQ(code, a) ==
    IF code \in {"Up", "Down", "j", "k", "Tab", "Space"}
    THEN Handled(next_tutorial_step(a), "None")
    ELSE IF code = "Enter"
         THEN Handled(exit_tutorial(a), "None")
         ELSE IF code = "q"
              THEN Handled(quit(a), "None")
              ELSE Handled(a, "None")

\* handle_key_event in Tutorial mode (lines 13-36)
handle_tutorial_key(code, a) ==
    IF code \in {"Up", "Down", "j", "k", "Tab", "Space"}
    THEN Handled(next_tutorial_step(a), "None")
    ELSE IF code \in {"Enter", "q"}
         THEN Handled(exit_tutorial(a), "None")
         ELSE Handled(a, "None")

\* handle_key_event in Normal mode (lines 41-154)
handle_normal_key(code, a) ==
    CASE code = "q" -> Handled(quit(a), "None")
      [] code = "?" -> Handled(show_help(a), "None")
      [] code \in {"Down", "j"} -> Handled(next_group(a), "None")
      [] code \in {"Up", "k"} -> Handled(previous_group(a), "None")
      [] code = "Tab" -> Handled(next_file(a), "None")
      [] code \in {"BackTab", "h"} -> Handled(previous_file(a), "None")
      [] code = "Space" -> Handled(toggle_mark(a), "None")
      [] code = "o" -> Handled(a, "OpenFile")
      [] code = "d" -> Handled(a, "DeleteFile")
      [] code = "D" ->
            Handled(a, IF marked_count(a) > 0 THEN "DeleteMarked" ELSE "None")
      [] code = "u" -> Handled(clear_marks(a), "None")
      [] code = "PageDown" -> Handled(next_groups(a, PageGroups), "None")
      [] code = "PageUp" -> Handled(previous_groups(a, PageGroups), "None")
      [] code = "Home" ->
            Handled([a EXCEPT !.selected_group = 0, !.selected_file = 0], "None")
      [] code = "End" ->
            Handled([a EXCEPT !.selected_group = saturating_sub(group_count(a), 1),
                              !.selected_file = 0], "None")
      [] code = "Enter" ->
            Handled(IF a.show_tutorial THEN exit_tutorial(a) ELSE a, "None")
      [] OTHER -> Handled(a, "None")

\* handle_key_event
handle_key_event(code, a) ==
    IF a.mode = "Tutorial" THEN handle_tutorial_key(code, a)
    ELSE IF a.mode = "Help" THEN Handled(hide_help(a), "None")
         ELSE handle_normal_key(code, a)

(***************************************************************************)
(* TuiSpec: run_tui and the event loop of run_app (main.rs) over the       *)
(* groups the engine returned.  `groups' is the list handed to run_tui,    *)
(* `app' the App, `key' the key event read last, `ret' the KeyAction       *)
(* handle_key_event returned for it, `disk' the files that exist.          *)
(***************************************************************************)
\* the files the groups of a session are made of
TuiFiles ==
    << FileInfo_new(P_a_f1, 2, 1, "Image"),
       FileInfo_new(P_a_f2, 2, 1, "Image"),
       FileInfo_new(P_f3, 2, 2, "Image"),
       FileInfo_new(P_abc, 2, 1, "Image") >>

\* the numbers of members of the groups of a session, group by group
TuiShapes == { << >>, <<2>>, <<3>>, <<2, 2>> }

RECURSIVE SumShape(_, _)
\* the sum of the first n entries of a shape
SumShape(shape, n) == IF n = 0 THEN 0 ELSE SumShape(shape, n - 1) + shape[n]

\* the groups of a shape: consecutive runs of TuiFiles, numbered from 0
TuiGroups(shape) ==
    [g \in DOMAIN shape |->
        DuplicateGroup_new(g - 1,
            SubSeq(TuiFiles, SumShape(shape, g - 1) + 1, SumShape(shape, g)))]

\* DejaVuError::FileOperationFailed
DejaVuError_FileOperationFailed(path) == <<"FileOperationFailed", path>>

\* FileDeleter::delete: std::fs::remove_file fails on a path that is not
\* there; its value here is the disk it leaves
FileDeleter_delete(d, path) ==
    IF path \in DOMAIN d
    THEN Ok([p \in DOMAIN d \ {path} |-> d[p]])
    ELSE Err(DejaVuError_FileOperationFailed(path))

\* lines 221-236 of run_app: the files at the marked flat positions, by a
\* traversal of all groups; order is the order the HashSet yields the marks
files_to_delete(a, order) ==
    LET hits == SelectSeq(order, LAMBDA idx : idx \in FlatIndices(a.duplicate_groups))
    IN [n \in DOMAIN hits |->
          LET gf == PairAt(a.duplicate_groups, hits[n])
          IN a.duplicate_groups[gf[1] + 1].files[gf[2] + 1]]

RECURSIVE DeleteEach_StopAtFailure(_, _)
\* the loop leaving at the first deletion that fails
DeleteEach_StopAtFailure(d, fs) ==
    IF fs = << >> THEN d
    ELSE LET r == FileDeleter_delete(d, fs[1].path)
         IN IF r.ok THEN DeleteEach_StopAtFailure(r.val, Tail(fs)) ELSE d

RECURSIVE DeleteEach(_, _)
\* lines 239-245 of run_app: every file is tried, a failure is only printed
DeleteEach(d, fs) ==
    IF fs = << >> THEN d
    ELSE LET r == FileDeleter_delete(d, fs[1].path)
         IN DeleteEach(IF r.ok THEN r.val ELSE d, Tail(fs))

RECURSIVE Attempts(_, _)
\* lines 239-245 of run_app: the calls of FileDeleter::delete in the order
\* they are made, each with whether it succeeded
Attempts(d, fs) ==
    IF fs = << >> THEN << >>
    ELSE LET r == FileDeleter_delete(d, fs[1].path)
         IN << [path |-> fs[1].path, ok |-> r.ok] >>
              \o Attempts(IF r.ok THEN r.val ELSE d, Tail(fs))

\* the file OpenFile and DeleteFile act on: current_group().files.get(selected_file)
SelectedFile(a) ==
    IF current_group(a) # None /\ a.selected_file < file_count(current_group(a)[1])
    THEN Some(current_group(a)[1].files[a.selected_file + 1])
    ELSE None

TuiInit ==
    /\ call = "run_tui"
    /\ pc = "start"
    /\ files = TuiFiles
    /\ disk = [p \in PathsOf(TuiFiles) |-> [readable |-> TRUE, bytes |-> ContentA]]
    /\ similarity_threshold = 0
    /\ progress = FALSE
    /\ task = [i \in DOMAIN files |-> "todo"]
    /\ lock = 0
    /\ hash_map = << >>
    /\ counter = 0
    /\ count = [i \in DOMAIN files |-> 0]
    /\ pb_position = << >>
    /\ perceptual_hashes = << >>
    /\ assigned = [i \in DOMAIN files |-> FALSE]
    /\ sim_i = 0
    /\ \E shape \in TuiShapes : groups = TuiGroups(shape)
    /\ result = "none"
    /\ prev = None
    /\ poisoned = FALSE
    /\ reader = << >>
    /\ file_hashes = << >>
    /\ ret = None
    /\ caller = "none"
    /\ app = None
    /\ key = None
    /\ stdin_line = None
    /\ deletions = None

\* run_tui line 112: App::new(duplicate_groups), then run_app
RunTui ==
    /\ call = "run_tui" /\ pc = "start"
    /\ app' = Some(App_new(groups))
    /\ pc' = "loop"
    /\ UNCHANGED << inputVars, aggVars, simVars, groups, result, prev, hashVars,
                    ret, caller, key, stdin_line, deletions >>

\* the end of one iteration of the loop of run_app that was not left by an
\* error: the App is a, and should_quit returns Ok(())
LoopEnd(a) ==
    /\ app' = Some(a)
    /\ IF a.should_quit
       THEN pc' = "done" /\ result' = "ok"
       ELSE pc' = "loop" /\ result' = result

\* return Err(e.into()) out of run_app
LoopErr(a) ==
    /\ app' = Some(a)
    /\ pc' = "done"
    /\ result' = "err"

\* KeyAction::OpenFile, lines 171-183: FileOpener::open starts an outside
\* program, which may fail
OpenFile(a) ==
    /\ disk' = disk
    /\ stdin_line' = None
    /\ deletions' = None
    /\ IF SelectedFile(a) # None
       THEN \E opened \in BOOLEAN : IF opened THEN LoopEnd(a) ELSE LoopErr(a)
       ELSE LoopEnd(a)

\* KeyAction::DeleteFile, lines 184-209: input is the line read from stdin
DeleteFile(a) ==
    /\ deletions' = None
    /\ IF SelectedFile(a) # None
       THEN \E input \in {"y", "n"} :
              /\ stdin_line' = Some(input)
              /\ IF input = "y"
                 THEN LET r == FileDeleter_delete(disk, SelectedFile(a)[1].path)
                      IN IF r.ok
                         THEN disk' = r.val /\ LoopEnd(a)
                         ELSE disk' = disk /\ LoopErr(a)
                 ELSE disk' = disk /\ LoopEnd(a)
       ELSE stdin_line' = None /\ disk' = disk /\ LoopEnd(a)

\* KeyAction::DeleteMarked, lines 210-250
DeleteMarked(a) ==
    \E input \in {"y", "n"} :
       /\ stdin_line' = Some(input)
       /\ IF input = "y"
          THEN \E order \in InjSeqs(a.marked_files, Cardinality(a.marked_files)) :
                 /\ disk' = DeleteEach(disk, files_to_delete(a, order))
                 /\ deletions' = Some(Attempts(disk, files_to_delete(a, order)))
                 /\ LoopEnd(clear_marks(a))
          ELSE disk' = disk /\ deletions' = None /\ LoopEnd(a)

\* one iteration of the loop of run_app in which a key event is read
\* (lines 166-258)
RunAppKey ==
    /\ call = "run_tui" /\ pc = "loop"
    /\ \E code \in KeyCodes :
         LET h == handle_key_event(code, app[1])
         IN /\ key' = Some(code)
            /\ ret' = Some(h.action)
            /\ CASE h.action = "OpenFile" -> OpenFile(h.app)
                 [] h.action = "DeleteFile" -> DeleteFile(h.app)
                 [] h.action = "DeleteMarked" -> DeleteMarked(h.app)
                 [] OTHER -> /\ disk' = disk
                             /\ stdin_line' = None
                             /\ deletions' = None
                             /\ LoopEnd(h.app)
    /\ UNCHANGED << call, files, similarity_threshold, progress, aggVars, simVars,
                    groups, prev, hashVars, caller >>

TuiNext ==
    \/ RunTui
    \/ RunAppKey

TuiSpec == TuiInit /\ [][TuiNext]_vars

(***************************************************************************)
(* DupSpec: HashGrouper::find_duplicates, the entry point main calls.      *)
(* `caller' is "find_duplicates" while the stages run on its behalf, `pc'  *)
(* is "idle" until it calls the first stage, `ret' is what it returns.     *)
(***************************************************************************)
DupInit ==
    /\ call = "group_by_exact_hash"
    /\ caller = "find_duplicates"
    /\ pc = "idle"
    /\ \E n \in 0..MaxFiles : ScanInput(call, n)
    /\ similarity_threshold = 0
    /\ progress \in BOOLEAN
    /\ task = [i \in DOMAIN files |-> "todo"]
    /\ lock = 0
    /\ hash_map = << >>
    /\ counter = 0
    /\ count = [i \in DOMAIN files |-> 0]
    /\ pb_position = << >>
    /\ perceptual_hashes = << >>
    /\ assigned = [i \in DOMAIN files |-> FALSE]
    /\ sim_i = 0
    /\ groups = << >>
    /\ result = "none"
    /\ prev = None
    /\ poisoned = FALSE
    /\ reader = << >>
    /\ file_hashes = << >>
    /\ ret = None
    /\ app = None
    /\ key = None
    /\ stdin_line = None
    /\ deletions = None

\* line 192: self.group_by_exact_hash(files, progress)
FindDuplicatesCall ==
    /\ caller = "find_duplicates" /\ pc = "idle"
    /\ pc' = "start"
    /\ UNCHANGED << inputVars, aggVars, simVars, groups, result, prev, hashVars,
                    ret, caller, tuiVars >>

\* lines 194-198 with a second stage that fingerprints the groups
SecondStage_Perceptual(exact_groups) ==
    [k \in DOMAIN exact_groups |->
        [exact_groups[k] EXCEPT
           !.perceptual_hash = Some(PerceptualHasher_compute_hash(@.files[1].path).val)]]

\* lines 194-198: no second stage, the groups of the first are the value
SecondStage(exact_groups) == exact_groups

\* line 192 `?' and line 198: the error of the first stage, or Ok(exact_groups)
FindDuplicatesReturn ==
    /\ caller = "find_duplicates" /\ pc = "done" /\ ret = None
    /\ ret' = Some(IF result = "ok"
                   THEN Ok(SecondStage(groups))
                   ELSE Err(DejaVuError_FileOperationFailed("Mutex poisoned")))
    /\ UNCHANGED << inputVars, pc, aggVars, simVars, groups, result, prev,
                    hashVars, caller, tuiVars >>

DupNext ==
    \/ FindDuplicatesCall
    \/ \E i \in DOMAIN files : StartTask(i)
    \/ \E i \in DOMAIN files : AcquireLock(i)
    \/ \E i \in DOMAIN files : Insert(i)
    \/ \E i \in DOMAIN files : FetchAdd(i)
    \/ \E i \in DOMAIN files : Report(i)
    \/ Collect
    \/ FindDuplicatesReturn

DupSpec == DupInit /\ [][DupNext]_vars

(***************************************************************************)
(* IndexSpec: the flat index of the marks.  The methods of App that move   *)
(* the selection and toggle a mark are called on an App over any list of   *)
(* groups, and the traversal of run_app's DeleteMarked arm is run on the   *)
(* marks they leave; `ret' is the list of files it collects.               *)
(***************************************************************************)
\* the files the groups are cut from: six paths, all different
IndexFiles ==
    << FileInfo_new(P_a_f1, 2, 1, "Image"),
       FileInfo_new(P_a_f2, 2, 1, "Image"),
       FileInfo_new(P_f3, 2, 2, "Image"),
       FileInfo_new(P_a_v4, 2, 1, "Video"),
       FileInfo_new(P_abc, 2, 1, "Image"),
       FileInfo_new(P_a_b_f5, 2, 3, "Image") >>

\* the lists of at most MaxGroups groups of at most MaxMembers files each
\* (a Vec<DuplicateGroup> may hold a group of no file or of one)
IndexShapes ==
    { shape \in UNION { [1..n -> 0..MaxMembers] : n \in 0..MaxGroups } :
        SumShape(shape, Len(shape)) <= Len(IndexFiles) }

\* the groups of a shape: consecutive runs of IndexFiles, numbered from 0.
\* DuplicateGroup::new on no file would index an empty Vec; the
\* recommended_original of such a group is left 0
IndexGroups(shape) ==
    [g \in DOMAIN shape |->
        LET fs == SubSeq(IndexFiles, SumShape(shape, g - 1) + 1, SumShape(shape, g))
        IN IF fs = << >>
           THEN [ group_id |-> g - 1, files |-> fs, exact_hash |-> None,
                  perceptual_hash |-> None, recommended_original |-> 0 ]
           ELSE DuplicateGroup_new(g - 1, fs)]

IndexInit ==
    /\ call = "get_global_file_index"
    /\ pc = "start"
    /\ files = IndexFiles
    /\ disk = [p \in PathsOf(IndexFiles) |-> [readable |-> TRUE, bytes |-> ContentA]]
    /\ similarity_threshold = 0
    /\ progress = FALSE
    /\ task = [i \in DOMAIN files |-> "todo"]
    /\ lock = 0
    /\ hash_map = << >>
    /\ counter = 0
    /\ count = [i \in DOMAIN files |-> 0]
    /\ pb_position = << >>
    /\ perceptual_hashes = << >>
    /\ assigned = [i \in DOMAIN files |-> FALSE]
    /\ sim_i = 0
    /\ \E shape \in IndexShapes : groups = IndexGroups(shape)
    /\ result = "none"
    /\ prev = None
    /\ poisoned = FALSE
    /\ reader = << >>
    /\ file_hashes = << >>
    /\ ret = None
    /\ caller = "none"
    /\ app = Some(App_new(groups))
    /\ key = None
    /\ stdin_line = None
    /\ deletions = None

\* what a call of a method of App leaves alone
IndexFrame ==
    UNCHANGED << inputVars, pc, aggVars, simVars, groups, result, prev, hashVars,
                 ret, caller, key, stdin_line, deletions >>

\* app.next_group()
NextGroup ==
    /\ call = "get_global_file_index" /\ pc = "start"
    /\ app' = Some(next_group(app[1]))
    /\ IndexFrame

\* app.next_file()
NextFile ==
    /\ call = "get_global_file_index" /\ pc = "start"
    /\ app' = Some(next_file(app[1]))
    /\ IndexFrame

\* app.toggle_mark(); the marks of a run are capped at MaxMarks
ToggleMark ==
    /\ call = "get_global_file_index" /\ pc = "start"
    /\ marked_count(toggle_mark(app[1])) <= MaxMarks
    /\ app' = Some(toggle_mark(app[1]))
    /\ IndexFrame

\* lines 220-236 of run_app: the marked files are collected, the HashSet
\* yielding the marks in any order
CollectMarked ==
    /\ call = "get_global_file_index" /\ pc = "start"
    /\ \E order \in InjSeqs(app[1].marked_files, Cardinality(app[1].marked_files)) :
         ret' = Some(files_to_delete(app[1], order))
    /\ pc' = "done"
    /\ UNCHANGED << inputVars, aggVars, simVars, groups, result, prev, hashVars,
                    caller, tuiVars >>

IndexNext ==
    \/ NextGroup
    \/ NextFile
    \/ ToggleMark
    \/ CollectMarked

IndexSpec == IndexInit /\ [][IndexNext]_vars

(***************************************************************************)
(* KeySpec: handle_key_event on an App, key event after key event, as the  *)
(* loop of run_app calls it until should_quit.  `key' is the key event     *)
(* handled last and `ret' the KeyAction returned for it.                   *)
(***************************************************************************)
\* the lists of groups browsed: none, one group, two groups of different
\* sizes in either order, three groups
KeyShapes == { << >>, <<2>>, <<3, 2>>, <<2, 3>>, <<2, 2, 2>> }

KeyInit ==
    /\ call = "handle_key_event"
    /\ pc = "start"
    /\ files = IndexFiles
    /\ disk = [p \in PathsOf(IndexFiles) |-> [readable |-> TRUE, bytes |-> ContentA]]
    /\ similarity_threshold = 0
    /\ progress = FALSE
    /\ task = [i \in DOMAIN files |-> "todo"]
    /\ lock = 0
    /\ hash_map = << >>
    /\ counter = 0
    /\ count = [i \in DOMAIN files |-> 0]
    /\ pb_position = << >>
    /\ perceptual_hashes = << >>
    /\ assigned = [i \in DOMAIN files |-> FALSE]
    /\ sim_i = 0
    /\ \E shape \in KeyShapes : groups = IndexGroups(shape)
    /\ result = "none"
    /\ prev = None
    /\ poisoned = FALSE
    /\ reader = << >>
    /\ file_hashes = << >>
    /\ ret = None
    /\ caller = "none"
    /\ app = None
    /\ key = None
    /\ stdin_line = None
    /\ deletions = None

\* App::new(duplicate_groups)
AppNew ==
    /\ call = "handle_key_event" /\ pc = "start"
    /\ app' = Some(App_new(groups))
    /\ pc' = "loop"
    /\ UNCHANGED << inputVars, aggVars, simVars, groups, result, prev, hashVars,
                    ret, caller, key, stdin_line, deletions >>

\* handle_key_event(key, app), for any key event
HandleKey ==
    /\ call = "handle_key_event" /\ pc = "loop"
    /\ ~app[1].should_quit
    /\ \E code \in KeyCodes :
         LET h == handle_key_event(code, app[1])
         IN /\ key' = Some(code)
            /\ ret' = Some(h.action)
            /\ app' = Some(h.app)
    /\ UNCHANGED << inputVars, pc, aggVars, simVars, groups, result, prev, hashVars,
                    caller, stdin_line, deletions >>

KeyNext ==
    \/ AppNew
    \/ HandleKey

KeySpec == KeyInit /\ [][KeyNext]_vars

(***************************************************************************)
(* Properties.                                                             *)
(***************************************************************************)
\* the call has returned Ok(groups)
Returned(c) == call = c /\ pc = "done" /\ result = "ok"

\* the exact fingerprint of input file i, when its hashing succeeds
Fingerprint(i) == ExactHasher_compute_hash(disk, files[i].path)

\* input file i is a member of group g (paths are distinct in a scan result,
\* so a record stands for its position in the input)
MemberOf(i, g) == \E m \in DOMAIN g.files : g.files[m] = files[i]

\* input files i and j are members of one emitted group
SameGroup(i, j) ==
    \E k \in DOMAIN groups : MemberOf(i, groups[k]) /\ MemberOf(j, groups[k])

\* input file i is a member of some emitted group
Grouped(i) == \E k \in DOMAIN groups : MemberOf(i, groups[k])

\* C1: every DuplicateGroup built by group_by_exact_hash or by
\* find_similar_images has at least 2 members, whatever the input (empty,
\* a single file, files that fail to hash).
C1_MinGroupSize ==
    call \in {"group_by_exact_hash", "find_similar_images"} =>
        \A k \in DOMAIN groups : Len(groups[k].files) >= 2

\* C1 witness: group_by_exact_hash has returned a group while a bucket of a
\* single file was left in the map and another file failed to hash.
C1_Witness ==
    /\ Returned("group_by_exact_hash")
    /\ groups # << >>
    /\ \E h \in DOMAIN hash_map : Len(hash_map[h]) = 1
    /\ \E i \in DOMAIN files : ~Fingerprint(i).ok

\* C2: in the result of group_by_exact_hash two input files are in the same
\* group exactly when both were fingerprinted and their fingerprints are
\* equal, and a file whose fingerprint no other fingerprinted file shares is
\* in no group.
C2_ExactGrouping ==
    Returned("group_by_exact_hash") =>
        /\ \A i, j \in DOMAIN files :
             i # j =>
               ( SameGroup(i, j) <=>
                   /\ Fingerprint(i).ok /\ Fingerprint(j).ok
                   /\ Fingerprint(i).val = Fingerprint(j).val )
        /\ \A i \in DOMAIN files :
             ( ~\E j \in DOMAIN files :
                  /\ j # i /\ Fingerprint(i).ok /\ Fingerprint(j).ok
                  /\ Fingerprint(i).val = Fingerprint(j).val )
             => ~Grouped(i)

\* C2 witness: three files with the same bytes and a fourth with other bytes
\* gave exactly one group, of the three, and the fourth file is in no group.
C2_Witness ==
    /\ Returned("group_by_exact_hash")
    /\ Len(files) = 4
    /\ \A i \in DOMAIN files : Fingerprint(i).ok
    /\ Len(groups) = 1
    /\ Len(groups[1].files) = 3
    /\ \E i \in DOMAIN files : ~Grouped(i)

\* some step of the closure of for_each on item i
ClosureStep(i) ==
    \/ StartTask(i)
    \/ AcquireLock(i)
    \/ Insert(i)
    \/ FetchAdd(i)
    \/ Report(i)

\* C3: two calls of group_by_exact_hash on the same files, whatever the
\* interleavings of their workers, return the same partition of the files
\* into groups; and a call that has not returned can always take a step.
C3_SamePartition ==
    call = "group_by_exact_hash" =>
        /\ (Returned("group_by_exact_hash") /\ prev # None)
              => Summary(groups).partition = prev[1].partition
        /\ pc # "done" =>
             \/ ForEachReturned
             \/ \E i \in DOMAIN files : ENABLED ClosureStep(i)

\* C3 witness: the second call has returned a group of three files whose
\* members were inserted in another order than the input order.
C3_Witness ==
    /\ Returned("group_by_exact_hash")
    /\ prev # None
    /\ \E k \in DOMAIN groups :
         /\ Len(groups[k].files) = 3
         /\ \E i, j \in DOMAIN files, m, n \in DOMAIN groups[k].files :
              /\ i < j /\ n < m
              /\ groups[k].files[m] = files[i]
              /\ groups[k].files[n] = files[j]

\* the places <<hash, position>> of the map that hold input file i
PlacesInMap(i) ==
    { pl \in UNION { { <<h, m>> : m \in DOMAIN hash_map[h] } : h \in DOMAIN hash_map } :
        hash_map[pl[1]][pl[2]] = files[i] }

\* C4: at most one closure at a time is between taking the lock and its
\* insert, and once every closure has run, each fingerprinted input file is
\* in the map exactly once, in the bucket of its own fingerprint, and a file
\* that failed to hash is not in the map.
C4_ExclusiveInsert ==
    call = "group_by_exact_hash" =>
        /\ Cardinality({ i \in DOMAIN task : task[i] = "insert" }) <= 1
        /\ \A i \in DOMAIN task : task[i] = "insert" => lock = i
        /\ ForEachReturned =>
             \A i \in DOMAIN files :
                IF Fingerprint(i).ok
                THEN PlacesInMap(i) = { <<Fingerprint(i).val, m>> :
                                         m \in { n \in DOMAIN hash_map[Fingerprint(i).val] :
                                                   hash_map[Fingerprint(i).val][n] = files[i] } }
                     /\ Cardinality(PlacesInMap(i)) = 1
                ELSE PlacesInMap(i) = {}

\* C4 witness: one closure holds the lock before its insert while another
\* closure waits for the lock, after an earlier insert.
C4_Witness ==
    /\ call = "group_by_exact_hash"
    /\ hash_map # << >>
    /\ \E i, j \in DOMAIN task : task[i] = "insert" /\ task[j] = "lock"

\* the places <<group, member>> of the emitted groups that hold input file i
PlacesInGroups(i) ==
    { pl \in UNION { { <<k, m>> : m \in DOMAIN groups[k].files } : k \in DOMAIN groups } :
        groups[pl[1]].files[pl[2]] = files[i] }

\* C5: within one stage every input record is a member of at most one
\* emitted group, and is there once.
C5_DisjointGroups ==
    call \in {"group_by_exact_hash", "find_similar_images"} =>
        \A i \in DOMAIN files : Cardinality(PlacesInGroups(i)) <= 1

\* C5 witness: group_by_exact_hash has returned two groups.
C5_Witness ==
    /\ Returned("group_by_exact_hash")
    /\ Len(groups) = 2

\* C6: for every DuplicateGroup emitted by either stage,
\* 0 <= recommended_original < files.len() and files.len() >= 2.
C6_ValidOriginal ==
    call \in {"group_by_exact_hash", "find_similar_images"} =>
        \A k \in DOMAIN groups :
            /\ 0 <= groups[k].recommended_original
            /\ groups[k].recommended_original < Len(groups[k].files)
            /\ Len(groups[k].files) >= 2

\* C6 witness: find_similar_images has returned a group whose recommended
\* original is its last member.
C6_Witness ==
    /\ Returned("find_similar_images")
    /\ \E k \in DOMAIN groups :
         groups[k].recommended_original = Len(groups[k].files) - 1

\* the key <<modified time, length of the path string, number of path
\* components>> of a member
MemberKey(f) == << f.modified, OsStrLen(f.path), ComponentsCount(f.path) >>

\* lexicographic order on the keys, less or equal
LexLeq(a, b) ==
    \/ a[1] < b[1]
    \/ a[1] = b[1] /\ a[2] < b[2]
    \/ a[1] = b[1] /\ a[2] = b[2] /\ a[3] <= b[3]

\* DuplicateGroup::new has been applied to the non-empty member list files
Built == call = "DuplicateGroup::new" /\ pc = "done" /\ files # << >>

\* C7: DuplicateGroup::new recommends the index whose key is the
\* lexicographically smallest of all members, and of several members with
\* the smallest key the one with the smallest index.
C7_FirstMinimalKey ==
    Built =>
        LET g == groups[1]
            r == g.recommended_original + 1
        IN /\ g.files = files
           /\ r \in DOMAIN g.files
           /\ \A m \in DOMAIN g.files :
                /\ LexLeq(MemberKey(g.files[r]), MemberKey(g.files[m]))
                /\ m < r => MemberKey(g.files[m]) # MemberKey(g.files[r])

\* C7 witness: three members of which the second and the third share the
\* smallest key; the second is recommended.
C7_Witness ==
    /\ Built
    /\ Len(files) = 3
    /\ groups[1].recommended_original = 1
    /\ MemberKey(files[2]) = MemberKey(files[3])
    /\ files[2] # files[3]

\* the member lists that hold the members of fs in another order
MemberOrders(fs) ==
    { [i \in DOMAIN fs |-> fs[p[i]]] : p \in InjSeqs(DOMAIN fs, Len(fs)) }

\* the member that DuplicateGroup::new recommends in the list fs
Recommended(fs) == DuplicateGroup_new(0, fs).files[DuplicateGroup_new(0, fs).recommended_original + 1]

\* the members of fs have pairwise distinct modification times
DistinctTimes(fs) ==
    \A i, j \in DOMAIN fs : i # j => fs[i].modified # fs[j].modified

\* the members of fs have one modification time and pairwise distinct path
\* string lengths
EqualTimesDistinctLengths(fs) ==
    \A i, j \in DOMAIN fs :
        /\ fs[i].modified = fs[j].modified
        /\ i # j => OsStrLen(fs[i].path) # OsStrLen(fs[j].path)

\* C8: of members with pairwise distinct modification times the earliest is
\* recommended in every order of the member list; of members with one
\* modification time and pairwise distinct path lengths the one with the
\* shortest path is recommended in every order.
C8_OrderIndependent ==
    Built =>
        /\ DistinctTimes(files) =>
             \A q \in MemberOrders(files) :
                /\ \A m \in DOMAIN files : Recommended(q).modified <= files[m].modified
                /\ Recommended(q) = groups[1].files[groups[1].recommended_original + 1]
        /\ EqualTimesDistinctLengths(files) =>
             \A q \in MemberOrders(files) :
                /\ \A m \in DOMAIN files :
                     OsStrLen(Recommended(q).path) <= OsStrLen(files[m].path)
                /\ Recommended(q) = groups[1].files[groups[1].recommended_original + 1]

\* C8 witness: three members with times t1 < t2 < t3 handed over latest
\* first, the earliest being the one with the longest path; the third
\* member is recommended.
C8_Witness ==
    /\ Built
    /\ Len(files) = 3
    /\ files[3].modified < files[2].modified
    /\ files[2].modified < files[1].modified
    /\ OsStrLen(files[3].path) > OsStrLen(files[1].path)
    /\ groups[1].recommended_original = 2

RECURSIVE SizeOver(_, _)
\* the sum of the sizes of the members of fs at the positions in S
SizeOver(fs, S) ==
    IF S = {} THEN 0
    ELSE LET m == CHOOSE x \in S : TRUE
         IN fs[m].size + SizeOver(fs, S \ {m})

\* C9: for every emitted group, total_size is the sum of the member sizes,
\* wasted_space is total_size minus the size of the recommended original,
\* that is the sum of the sizes of the other members, and is not negative.
C9_WastedSpace ==
    call \in {"group_by_exact_hash", "find_similar_images"} =>
        \A k \in DOMAIN groups :
            LET g == groups[k]
                r == g.recommended_original + 1
            IN /\ total_size(g) = SizeOver(g.files, DOMAIN g.files)
               /\ wasted_space(g) = SizeOver(g.files, DOMAIN g.files \ {r})
               /\ wasted_space(g) + g.files[r].size = total_size(g)
               /\ wasted_space(g) >= 0

\* C9 witness: an emitted group whose recommended original is not the first
\* member and differs in size from the first member.
C9_Witness ==
    /\ Returned("find_similar_images")
    /\ \E k \in DOMAIN groups :
         /\ groups[k].recommended_original > 0
         /\ groups[k].files[groups[k].recommended_original + 1].size
               # groups[k].files[1].size

\* C10: for a fixed input the file recommended as the original of each
\* group is the same file in every interleaving of the workers, also when
\* members tie on modification time, path length and component count: two
\* calls on the same files recommend the same files.
C10_SameOriginal ==
    (Returned("group_by_exact_hash") /\ prev # None)
        => Summary(groups).originals = prev[1].originals

\* C11: during group_by_exact_hash with a progress bar the positions given
\* to pb.set_position never decrease, in every interleaving of the workers:
\* each position is at least the one reported before it.
C11_MonotonicPositions ==
    call = "group_by_exact_hash" =>
        \A m, n \in DOMAIN pb_position :
            m < n => pb_position[m] <= pb_position[n]

\* C12: a file whose exact fingerprinting fails (unreadable, I/O error) is
\* left out of every group, the other files are still processed and grouped
\* by their fingerprints, and group_by_exact_hash returns Ok: one bad file
\* never turns the call into an error.
C12_FailedFileLeftOut ==
    (call = "group_by_exact_hash" /\ pc = "done") =>
        /\ result = "ok"
        /\ counter = Len(files)
        /\ \A i \in DOMAIN files : ~Fingerprint(i).ok => ~Grouped(i)
        /\ \A i, j \in DOMAIN files :
             ( /\ i # j /\ Fingerprint(i).ok /\ Fingerprint(j).ok
               /\ Fingerprint(i).val = Fingerprint(j).val ) => SameGroup(i, j)

\* C12 witness: the call has returned a group of two readable files while a
\* third file, holding the same bytes, could not be read and is in no group.
C12_Witness ==
    /\ Returned("group_by_exact_hash")
    /\ \E i, j, k \in DOMAIN files :
         /\ ~Fingerprint(i).ok /\ ~Grouped(i)
         /\ j # k /\ SameGroup(j, k)
         /\ disk[files[i].path].bytes = disk[files[j].path].bytes

C14_PoisonedReturnsError ==
    (call = "group_by_exact_hash" /\ pc = "done" /\ poisoned) =>
        /\ result = "err"
        /\ groups = << >>

\* C15: an I/O error met by ExactHasher::compute_hash is returned as a
\* read-failure error value that identifies the offending path: the errors
\* returned for two different paths are different values.
C15_ErrorIdentifiesPath ==
    call = "group_by_exact_hash" =>
        \A i, j \in DOMAIN files :
            ( /\ task[i] # "todo" /\ task[j] # "todo"
              /\ ~Fingerprint(i).ok /\ ~Fingerprint(j).ok
              /\ files[i].path # files[j].path )
            => Fingerprint(i).val # Fingerprint(j).val

\* C16: ExactHasher::compute_hash returns a digest that depends only on the
\* byte sequence of the file: whatever way the reads split the content into
\* chunks of at most the buffer size, the digest is the SHA-256 of the whole
\* content, so two files with identical bytes yield equal fingerprints and
\* files_equal returns true for them.
C16_DigestOfBytes ==
    call = "files_equal" =>
        /\ \A k \in DOMAIN file_hashes :
             /\ file_hashes[k] = Sha256(disk[files[k].path].bytes)
             /\ Ok(file_hashes[k]) = ExactHasher_compute_hash(disk, files[k].path)
        /\ (pc = "done" /\ result = "ok"
              /\ disk[files[1].path].bytes = disk[files[2].path].bytes)
           => ret = Some(TRUE)

\* C16 witness: files_equal has returned true for two files of the same
\* MaxBytes bytes, the first read in a full buffer and a rest, the second
\* byte by byte.
C16_Witness ==
    /\ call = "files_equal" /\ pc = "done" /\ result = "ok"
    /\ ret = Some(TRUE)
    /\ Len(disk[files[1].path].bytes) = MaxBytes
    /\ reader[1].reads[1] = BufferSize
    /\ \A k \in 1..MaxBytes : reader[2].reads[k] = 1

\* bit k of fingerprint x
Bit(x, k) == (x \div (2^k)) % 2

\* the number of bit positions in which a and b differ
BitDiff(a, b) == Cardinality({ k \in 0..(HashBits - 1) : Bit(a, k) # Bit(b, k) })

\* C17: for all fingerprints a, b, hamming_distance(a, b) is the number of
\* bit positions in which a and b differ, equals hamming_distance(b, a),
\* lies between 0 and the width of a fingerprint, and is 0 for a = b.
C17_HammingDistance ==
    (call = "hamming_distance" /\ pc = "done") =>
        LET a == perceptual_hashes[1]
            b == perceptual_hashes[2]
        IN /\ ret[1] = BitDiff(a, b)
           /\ ret[1] = hamming_distance(b, a)
           /\ ret[1] \in 0..HashBits
           /\ a = b => ret[1] = 0
           /\ hamming_distance(a, a) = 0

\* C17 witness: hamming_distance has returned the full width for two
\* fingerprints that differ in every bit, neither of them 0.
C17_Witness ==
    /\ call = "hamming_distance" /\ pc = "done"
    /\ ret = Some(HashBits)
    /\ perceptual_hashes[1] # 0 /\ perceptual_hashes[2] # 0

\* C18: are_similar(a, b, t) is true exactly when hamming_distance(a, b) is
\* at most t: a distance equal to the threshold counts as similar, a
\* distance above it does not.
C18_SimilarIffWithinThreshold ==
    (call = "are_similar" /\ pc = "done") =>
        LET a == perceptual_hashes[1]
            b == perceptual_hashes[2]
        IN /\ ret[1] <=> hamming_distance(a, b) <= similarity_threshold
           /\ ret[1] <=> BitDiff(a, b) <= similarity_threshold

\* C18 witness: are_similar has returned true for two fingerprints whose
\* distance is exactly the threshold, which is not 0.
C18_Witness ==
    /\ call = "are_similar" /\ pc = "done"
    /\ ret = Some(TRUE)
    /\ similarity_threshold > 0
    /\ BitDiff(perceptual_hashes[1], perceptual_hashes[2]) = similarity_threshold

\* input files i and j have fingerprints within the threshold (1-based)
Similar(i, j) ==
    BitDiff(perceptual_hashes[i], perceptual_hashes[j]) <= similarity_threshold

\* find_similar_images has returned for three images [A, B, C] with A
\* similar to B, B similar to C and A not similar to C
ChainABC ==
    /\ Returned("find_similar_images")
    /\ Len(files) = 3
    /\ \A i \in DOMAIN files : is_image(files[i])
    /\ Similar(1, 2) /\ Similar(2, 3) /\ ~Similar(1, 3)

IndexOf(g, m) == CHOOSE i \in DOMAIN files : files[i] = g.files[m]

C22_NonImageNeverGrouped ==
    call = "find_similar_images" =>
        /\ \A k \in DOMAIN groups : \A m \in DOMAIN groups[k].files :
             is_image(groups[k].files[m])
        /\ \A i \in DOMAIN files : ~is_image(files[i]) => ~Grouped(i)

\* C22 witness: the call has returned a group although the first record of
\* the input is no image and was given the fingerprint the group carries.
C22_Witness ==
    /\ Returned("find_similar_images")
    /\ Len(groups) = 1
    /\ ~is_image(files[1])
    /\ Some(perceptual_hashes[1]) = groups[1].perceptual_hash
    /\ ~Grouped(1)

\* C23: a record without a fingerprint (no image, or an image that does not
\* decode) is given a dedicated "no fingerprint" outcome that is distinct
\* from every real fingerprint value: what find_similar_images keeps for a
\* record that is no image is not a value of the fingerprint type, and in
\* particular not the all-zero bit pattern.
C23_SentinelIsNoFingerprint ==
    call = "find_similar_images" =>
        \A i \in DOMAIN perceptual_hashes :
            ~is_image(files[i]) => perceptual_hashes[i] \notin Fingerprints

\* C24: PerceptualHasher::compute_hash of an image returns the value whose
\* k-th bit counted from the most significant bit (k = 0.., row-major over
\* the grayscale grid) is 1 exactly when the luminance of sample k is at
\* least the mean of the grid, so that images with different bit decisions
\* receive different fingerprints.
C24_AverageHashBits ==
    (call = "compute_hash" /\ pc = "done") =>
        /\ ret[1].ok
        /\ \A k \in 0..(HashBits - 1) :
             Bit(ret[1].val, HashBits - 1 - k)
                = AverageBit(disk[files[1].path].bytes, k + 1)

\* C25: no sequence of key events handled by the browsing layer
\* (handle_key_event, and the OpenFile / DeleteFile / DeleteMarked handling
\* of run_app) changes duplicate_groups: the list of groups, their members,
\* their order and their recommended_original stay as run_tui received them.
C25_GroupsAsReceived ==
    (call = "run_tui" /\ app # None) => app[1].duplicate_groups = groups

\* a confirmed DeleteMarked has removed a member from the disk and the
\* group still lists it
C25_Witness ==
    /\ call = "run_tui" /\ app # None
    /\ ret = Some("DeleteMarked")
    /\ app[1].marked_files = { }
    /\ \E g \in DOMAIN app[1].duplicate_groups :
         \E f \in DOMAIN app[1].duplicate_groups[g].files :
            app[1].duplicate_groups[g].files[f].path \notin DOMAIN disk

\* the image records of the input, in input order
ImageRecords == SelectSeq(files, is_image)

\* C26: with the shipped fingerprinter, find_similar_images on an input with
\* at least two image records, at any threshold, emits exactly one group,
\* and that group holds every image record of the input in input order.
C26_OneGroupOfAllImages ==
    (Returned("find_similar_images") /\ Len(ImageRecords) >= 2)
        => /\ Len(groups) = 1
           /\ groups[1].files = ImageRecords

\* three images and a video between them have been clustered
C26_Witness ==
    /\ Returned("find_similar_images")
    /\ Len(ImageRecords) = 3
    /\ Len(files) = 4 /\ ~is_image(files[2])
    /\ Len(groups) = 1

\* C27: in the list each stage returns, the group at position p (from 0) has
\* group_id p: the ids are unique and contiguous 0..k-1, and a discarded
\* singleton leaves no gap.
C27_GroupIdIsPosition ==
    (Returned("group_by_exact_hash") \/ Returned("find_similar_images"))
        => \A p \in DOMAIN groups : groups[p].group_id = p - 1

\* the exact stage has returned a group and has discarded a bucket of one file
C27_Witness ==
    /\ Returned("group_by_exact_hash")
    /\ Len(groups) >= 1
    /\ \E h \in DOMAIN hash_map : Len(hash_map[h]) = 1

\* C28: a group of the exact stage carries exact_hash, the fingerprint all
\* its members share, and no perceptual_hash, and no two groups of one
\* result carry the same exact_hash; a group of the similar stage carries
\* perceptual_hash, the fingerprint of its seed (its first member), and no
\* exact_hash.
C28_HashFields ==
    /\ Returned("group_by_exact_hash") =>
         /\ \A p \in DOMAIN groups :
              /\ groups[p].exact_hash # None
              /\ \A m \in DOMAIN groups[p].files :
                    ExactHasher_compute_hash(disk, groups[p].files[m].path)
                        = Ok(groups[p].exact_hash[1])
              /\ groups[p].perceptual_hash = None
         /\ \A p, q \in DOMAIN groups :
              p # q => groups[p].exact_hash # groups[q].exact_hash
    /\ Returned("find_similar_images") =>
         \A p \in DOMAIN groups :
            /\ \E i \in DOMAIN files :
                 /\ files[i] = groups[p].files[1]
                 /\ groups[p].perceptual_hash = Some(perceptual_hashes[i])
            /\ groups[p].exact_hash = None

\* the exact stage has returned two groups
C28_Witness == Returned("group_by_exact_hash") /\ Len(groups) = 2

\* C29: find_duplicates returns exactly what group_by_exact_hash returned on
\* the same input: the perceptual stage is never run, no returned group
\* carries a perceptual_hash, and no returned group holds two files with
\* different exact fingerprints.
C29_ExactStageOnly ==
    (caller = "find_duplicates" /\ ret # None) =>
        /\ ret[1].ok = (result = "ok")
        /\ perceptual_hashes = << >>
        /\ ret[1].ok =>
              /\ ret[1].val = groups
              /\ \A p \in DOMAIN ret[1].val :
                    /\ ret[1].val[p].perceptual_hash = None
                    /\ \A m, n \in DOMAIN ret[1].val[p].files :
                          ExactHasher_compute_hash(disk, ret[1].val[p].files[m].path)
                              = ExactHasher_compute_hash(disk, ret[1].val[p].files[n].path)

\* find_duplicates has returned one group of two images with the same bytes
\* and left out a third image with other bytes
C29_Witness ==
    /\ caller = "find_duplicates" /\ ret # None
    /\ Len(ret[1].val) = 1
    /\ Len(ret[1].val[1].files) = 2
    /\ \A m \in 1..2 : is_image(ret[1].val[1].files[m])
    /\ \E i \in DOMAIN files :
         /\ is_image(files[i])
         /\ \A m \in 1..2 : files[i] # ret[1].val[1].files[m]

\* C30: when group_by_exact_hash returns with a progress observer, the
\* counter equals the number of input files and the last position reported
\* to the observer equals the number of input files, in every interleaving
\* of the workers.
C30_FinalCountReported ==
    (Returned("group_by_exact_hash") /\ progress) =>
        /\ counter = Len(files)
        /\ Len(files) > 0 => pb_position[Len(pb_position)] = Len(files)

\* the valid (group index, file index) pairs of an App, both from 0
ValidPairs(a) ==
    UNION { { <<g, f>> : f \in 0..(file_count(a.duplicate_groups[g + 1]) - 1) } :
              g \in 0..(Len(a.duplicate_groups) - 1) }

\* file f of group g
FileAt(a, gf) == a.duplicate_groups[gf[1] + 1].files[gf[2] + 1]

\* C31: the flat index of the marks is a bijection onto (group, file) pairs:
\* get_global_file_index maps distinct valid pairs to distinct integers, and
\* the traversal of run_app's DeleteMarked arm maps get_global_file_index(g, f)
\* back to file f of group g, for every list of groups.
C31_FlatIndexBijection ==
    (call = "get_global_file_index") =>
        LET a == app[1] IN
        /\ \A p, q \in ValidPairs(a) :
              p # q => get_global_file_index(a, p[1], p[2])
                         # get_global_file_index(a, q[1], q[2])
        /\ \A p \in ValidPairs(a) :
              files_to_delete(a, << get_global_file_index(a, p[1], p[2]) >>)
                 = << FileAt(a, p) >>
        /\ pc = "done" =>
              { ret[1][n] : n \in DOMAIN ret[1] }
                 = { FileAt(a, p) : p \in { q \in ValidPairs(a) :
                        get_global_file_index(a, q[1], q[2]) \in a.marked_files } }

\* two files of different groups of different sizes were marked, and the
\* traversal has collected both
C31_Witness ==
    /\ call = "get_global_file_index" /\ pc = "done"
    /\ Len(app[1].duplicate_groups) = 3
    /\ file_count(app[1].duplicate_groups[1]) = 3
    /\ file_count(app[1].duplicate_groups[2]) = 0
    /\ file_count(app[1].duplicate_groups[3]) = 2
    /\ { ret[1][n].path : n \in DOMAIN ret[1] } = { P_f3, P_abc }

\* an App is browsing under handle_key_event
Browsing == call = "handle_key_event" /\ app # None

\* C32: after any sequence of key events on an App created with a non-empty
\* list of groups, selected_group is a valid index into duplicate_groups:
\* Down/j, Up/k, PageDown, PageUp, Home and End saturate at the first and
\* the last group.
C32_SelectedGroupValid ==
    (Browsing /\ groups # << >>) =>
        app[1].selected_group \in 0..(Len(app[1].duplicate_groups) - 1)

\* PageDown was pressed on the last of three groups and the selection stays
\* on it
C32_Witness ==
    /\ Browsing
    /\ Len(app[1].duplicate_groups) = 3
    /\ key = Some("PageDown")
    /\ app[1].selected_group = 2

\* C33: after any sequence of key events, selected_file is a valid index
\* into the files of the selected group: Tab and BackTab/h wrap around
\* inside the group, and every key that changes selected_group resets
\* selected_file to 0, also when consecutive groups differ in size.  The
\* first conjunct is the invariant, the second the reset.
C33_SelectedFileValid ==
    /\ []((Browsing /\ groups # << >>) =>
            app[1].selected_file \in 0..(App_file_count(app[1]) - 1))
    /\ [][(Browsing /\ app' # None
             /\ app'[1].selected_group # app[1].selected_group)
              => app'[1].selected_file = 0]_vars

\* the last file of a group of three was selected and Up has moved the
\* selection to a group of two
C33_Witness ==
    /\ Browsing
    /\ key = Some("Up")
    /\ app[1].selected_group = 0
    /\ app[1].selected_file = 0
    /\ Len(app[1].duplicate_groups) = 2
    /\ file_count(app[1].duplicate_groups[1]) = 2
    /\ file_count(app[1].duplicate_groups[2]) = 3

RECURSIVE SumMarkedInGroups(_, _)
\* the sum of marked_count_in_group over the first n groups
SumMarkedInGroups(a, n) ==
    IF n = 0 THEN 0
    ELSE SumMarkedInGroups(a, n - 1) + marked_count_in_group(a, n - 1)

\* C34: after any sequence of key events, every index in marked_files is the
\* flat index of an existing (group, file) pair, and the sum over all groups
\* of marked_count_in_group(g) equals marked_count().
C34_MarksValid ==
    Browsing =>
        /\ \A idx \in app[1].marked_files :
              \E p \in ValidPairs(app[1]) :
                 get_global_file_index(app[1], p[1], p[2]) = idx
        /\ SumMarkedInGroups(app[1], group_count(app[1])) = marked_count(app[1])

\* the last file of a group of three and the last file of the group of two
\* after it are marked
C34_Witness ==
    /\ Browsing
    /\ Len(app[1].duplicate_groups) = 2
    /\ file_count(app[1].duplicate_groups[1]) = 3
    /\ app[1].marked_files = { 2, 4 }
    /\ marked_count_in_group(app[1], 0) = 1
    /\ marked_count_in_group(app[1], 1) = 1

\* C35: in Tutorial mode a key other than q and Enter advances the tutorial
\* by one step, and the tutorial is left (mode Normal) with the fourth such
\* key; q and Enter leave the tutorial at once.
C35_TutorialKeys ==
    [][(Browsing /\ app[1].mode = "Tutorial" /\ app' # None /\ key' # None) =>
          IF key'[1] \in {"q", "Enter"}
          THEN app'[1].mode = "Normal"
          ELSE /\ app'[1].tutorial_step = app[1].tutorial_step + 1
               /\ (app'[1].mode = "Normal") = (app'[1].tutorial_step = 4)]_vars

\* C36: whenever the mode is Tutorial, show_tutorial is true and
\* tutorial_step is at most 3; once the mode has left Tutorial no key event
\* makes it Tutorial again; and App::new starts in Tutorial mode exactly
\* when the list of groups is not empty.
C36_TutorialOnce ==
    /\ []((Browsing /\ app[1].mode = "Tutorial") =>
            (app[1].show_tutorial /\ app[1].tutorial_step <= 3))
    /\ [][(Browsing /\ app[1].mode # "Tutorial") => app'[1].mode # "Tutorial"]_vars
    /\ [][(call = "handle_key_event" /\ app = None /\ app' # None) =>
            ((app'[1].mode = "Tutorial") = (groups # << >>))]_vars

\* the tutorial was left with its fourth step and the help was opened later
C36_Witness ==
    /\ Browsing
    /\ app[1].tutorial_step = 4
    /\ ~app[1].show_tutorial
    /\ app[1].mode = "Help"

\* C37: in Help mode every key event switches the mode to Normal and has no
\* other effect: selected_group, selected_file, marked_files and should_quit
\* (and every other field of the App) are unchanged, and the action returned
\* is KeyAction::None.
C37_HelpKeyOnlyLeavesHelp ==
    [][(Browsing /\ app[1].mode = "Help") =>
          /\ app' = Some([app[1] EXCEPT !.mode = "Normal"])
          /\ ret' = Some("None")]_vars

\* q was pressed in Help mode with a file marked: the App has not quit and
\* the mark is kept
C37_Witness ==
    /\ Browsing
    /\ key = Some("q")
    /\ app[1].mode = "Normal"
    /\ ~app[1].should_quit
    /\ app[1].marked_files # { }

\* C38: a key event handled while the mode is Tutorial or Help never returns
\* OpenFile, DeleteFile or DeleteMarked, never sets should_quit and never
\* changes marked_files; DeleteMarked is returned only in Normal mode, for
\* the key 'D', with at least one file marked.
C38_ModalKeysAreHarmless ==
    /\ [][(Browsing /\ app[1].mode \in {"Tutorial", "Help"}) =>
            /\ ret' = Some("None")
            /\ ~app'[1].should_quit
            /\ app'[1].marked_files = app[1].marked_files]_vars
    /\ [][(Browsing /\ ret' = Some("DeleteMarked")) =>
            /\ app[1].mode = "Normal"
            /\ key' = Some("D")
            /\ app[1].marked_files # { }]_vars
    /\ [](Browsing /\ ret = Some("DeleteMarked") =>
            /\ key = Some("D")
            /\ app[1].mode = "Normal"
            /\ app[1].marked_files # { })

\* d was pressed during the tutorial and no action came back
C38_Witness ==
    /\ Browsing
    /\ key = Some("d")
    /\ app[1].mode = "Tutorial"
    /\ ret = Some("None")

\* the paths of the marked files of an App
MarkedPaths(a) ==
    { FileAt(a, p).path : p \in { q \in ValidPairs(a) :
         get_global_file_index(a, q[1], q[2]) \in a.marked_files } }

\* C39: when a DeleteMarked request is confirmed, deletion is attempted for
\* every marked file, also after the deletion of an earlier one failed (so
\* every marked file that existed is gone), and marked_files is empty
\* afterwards; when it is not confirmed, no file is deleted and marked_files
\* is unchanged.
C39_DeleteMarkedAll ==
    [][(call = "run_tui" /\ app # None /\ ret' = Some("DeleteMarked")) =>
          IF stdin_line' = Some("y")
          THEN /\ app'[1].marked_files = { }
               /\ deletions' # None
               /\ { deletions'[1][n].path : n \in DOMAIN deletions'[1] }
                     = MarkedPaths(app[1])
               /\ Len(deletions'[1]) = Cardinality(app[1].marked_files)
               /\ \A n \in DOMAIN deletions'[1] :
                     deletions'[1][n].ok = (deletions'[1][n].path \in DOMAIN disk)
               /\ DOMAIN disk' = DOMAIN disk \ MarkedPaths(app[1])
          ELSE /\ disk' = disk
               /\ deletions' = None
               /\ app'[1].marked_files = app[1].marked_files]_vars

\* a confirmed DeleteMarked whose first deletion failed and whose second
\* deleted a file
C39_Witness ==
    /\ call = "run_tui" /\ app # None
    /\ ret = Some("DeleteMarked")
    /\ stdin_line = Some("y")
    /\ deletions # None
    /\ Len(deletions[1]) = 2
    /\ ~deletions[1][1].ok
    /\ deletions[1][2].ok
    /\ deletions[1][2].path \notin DOMAIN disk
    /\ app[1].marked_files = { }

====
